---- MODULE Spec2Model ----
(***************************************************************************)
(* A model of the route-resolution and request-dispatch pipeline of the    *)
(* Honest framework: path composition (utils, RouteManager), the component *)
(* registries (MetadataRegistry), the component resolver and exception     *)
(* dispatch (ComponentManager) and the per-route dispatch closure          *)
(* (RouteManager.registerRoute).                                           *)
(*                                                                         *)
(* Strings are modelled as sequences of one-character strings, so that     *)
(* normalizePath is computed on the characters as the code computes it.    *)
(* The JavaScript values undefined and null are the sentinels Undef and    *)
(* Null.                                                                   *)
(***************************************************************************)
EXTENDS Integers, Sequences, FiniteSets, TLC

\* ------------------------------------------------------------------------
\* Bounds of the model
\* ------------------------------------------------------------------------
MaxPathLen == 4
MaxSegmentLen == 4
MaxContainerCalls == 3
MaxResolveDepth == 4
MaxPlugins == 2
MaxComponents == 2
MaxRegistrations == 4
MaxVersion == 2
MaxVersionListLen == 2

\* ------------------------------------------------------------------------
\* JavaScript values
\* ------------------------------------------------------------------------
Undef == <<"#undefined">>
Null == <<"#null">>

isNil(val) == val = Null \/ val = Undef

Alphabet == {"/", "a", "b"}

Kinds == {"middleware", "guard", "pipe", "filter"}

\* Controller classes (by identity) and the value of their .name property
Controllers == {"c1", "c2"}
ClassNames == {"Users", "Admin"}
Handlers == {"h1", "h2"}

\* Component references: ready instances (objects that carry the kind's method)
\* and class references (resolved through the DI container)
Instances == {"I1", "I2", "I3"}
ClassRefs == {"K1", "K2"}
Components == Instances \cup ClassRefs

RECURSIVE SeqsUpTo(_, _)
SeqsUpTo(S, n) ==
    IF n = 0 THEN {<<>>}
    ELSE LET shorter == SeqsUpTo(S, n - 1)
         IN  shorter \cup {Append(s, x) : s \in {t \in shorter : Len(t) = n - 1}, x \in S}

PathStrings == SeqsUpTo(Alphabet, MaxPathLen)

\* String.prototype.startsWith
RECURSIVE startsWith(_, _)
startsWith(s, prefix) ==
    IF prefix = <<>> THEN TRUE
    ELSE IF s = <<>> THEN FALSE
    ELSE Head(s) = Head(prefix) /\ startsWith(Tail(s), Tail(prefix))

\* path.replace(/\/+$/, '')
RECURSIVE stripTrailingSlashes(_)
stripTrailingSlashes(s) ==
    IF s # <<>> /\ s[Len(s)] = "/" THEN stripTrailingSlashes(SubSeq(s, 1, Len(s) - 1))
    ELSE s

\* s.replace(/\/+/g, '/')
RECURSIVE collapseSlashes(_)
collapseSlashes(s) ==
    IF Len(s) < 2 THEN s
    ELSE IF s[1] = "/" /\ s[2] = "/" THEN collapseSlashes(Tail(s))
    ELSE <<s[1]>> \o collapseSlashes(Tail(s))

\* The empty string and undefined left empty, as the README examples have it
normalizePathEmptyKept(path) ==
    IF path = Undef \/ path = <<>>
    THEN <<>>
    ELSE IF startsWith(path, <<"/">>)
         THEN collapseSlashes(<<"/">> \o stripTrailingSlashes(path))
         ELSE <<"/">> \o stripTrailingSlashes(path)

\* utils: normalizePath(path?: string)
normalizePath(path) ==
    IF path = Undef \/ path = <<>>
    THEN <<"/">>
    ELSE IF startsWith(path, <<"/">>)
         THEN collapseSlashes(<<"/">> \o stripTrailingSlashes(path))
         ELSE <<"/">> \o stripTrailingSlashes(path)

\* ------------------------------------------------------------------------
\* State
\* ------------------------------------------------------------------------
VARIABLES
    npArg,      \* argument of a normalizePath call sequence
    npOnce,     \* normalizePath(npArg), once computed
    npTwice,    \* normalizePath(normalizePath(npArg)), once computed
    npPc,       \* "idle" | "start" | "once" | "twice"
    bpArgs,     \* the four segments of a buildRoutePath call, <<>> without one
    bpResult,   \* its result, once computed
    \* MetadataRegistry: component registrations
    global,             \* kind -> the Set of global components, in insertion order
    globalWithPath,     \* kind -> list of [path, component]
    controller,         \* kind -> controller class -> list of components
    handler,            \* kind -> handler key -> list of components
    resolved,           \* the last getComponents call: its arguments and result
    \* MetadataRegistry: what the decorators recorded
    controllers,        \* controller class -> controller path
    controllerOptions,  \* controller class -> [prefix, version]
    routes,             \* controller class -> list of RouteDefinition
    parameters,         \* controller class -> handler -> list of ParameterMetadata
    contextIndices,     \* controller class -> handler -> index of the context parameter
    names,              \* controller class -> the name property of the class
    \* RouteManager, RouteRegistry, the router and the DI container
    globalPrefix,       \* RouteManager.globalPrefix
    globalVersion,      \* RouteManager.globalVersion
    routeRegistry,      \* RouteRegistry.routes: the route catalog
    hono,               \* the router's registrations, in the order of the on() calls
    instances,          \* Container.instances: the classes with a cached instance
    diFailing,          \* the classes whose construction throws
    regCalls,           \* history: the registerController calls made, in order
    \* One request in the dispatch closure (wrapperHandler) and in handleException
    req,                \* the closure's position and local variables
    log,                \* history: the calls made to guards, factories, pipes, the
                        \* handler and filters, in order, with their outcomes
    \* The application
    modules,            \* MetadataRegistry.modules: the options given to @Module
    app,                \* whether new Application(options) ran, and its options
    honoUse,            \* the hono.use('*', middleware) calls made, in order
    appCalls,           \* history: the Application.register calls made, in order
    boot,               \* Application.create: its position, the plugins and the hooks run
    \* A Container used on its own
    paramtypes,         \* the 'design:paramtypes' metadata of the classes
    cache,              \* Container.instances: class -> instance
    constructed,        \* history: how many times new target(...) returned, per class
    diCalls             \* history: the resolve and register calls made, in order

pathVars == <<npArg, npOnce, npTwice, npPc, bpArgs, bpResult>>
registryVars == <<global, globalWithPath, controller, handler>>
metaVars == <<controllers, controllerOptions, routes, parameters, contextIndices, names>>
managerVars == <<globalPrefix, globalVersion, routeRegistry, hono, instances, diFailing,
                 regCalls>>

reqVars == <<req, log>>
appVars == <<modules, app, honoUse, appCalls, boot>>
diVars == <<paramtypes, cache, constructed, diCalls>>

vars == <<pathVars, registryVars, resolved, metaVars, diVars, appVars, managerVars, reqVars>>

\* ------------------------------------------------------------------------
\* normalizePath applied to an arbitrary argument, then to its own result
\* ------------------------------------------------------------------------
PathIdle ==
    /\ npArg = Undef /\ npOnce = Undef /\ npTwice = Undef /\ npPc = "idle"
    /\ bpArgs = <<>> /\ bpResult = Undef

\* The segments registerRoute is called with: the empty string, or a path
\* normalized by RouteManager.normalizePath
Segments == {<<>>} \cup {normalizePath(p) : p \in SeqsUpTo({"/", "a"}, MaxSegmentLen)}

\* The version segments registerController passes: none, '/v1', the wildcard
VersionSegments == {<<>>, <<"/", "v", "1">>, <<"/", ":version{v[0-9]+}">>}

InitPath ==
    /\ npOnce = Undef
    /\ npTwice = Undef
    /\ bpResult = Undef
    /\ \/ /\ npArg \in PathStrings \cup {Undef}
          /\ npPc = "start"
          /\ bpArgs = <<>>
       \/ /\ npArg = Undef
          /\ npPc = "idle"
          /\ bpArgs \in Segments \X VersionSegments \X Segments \X Segments

NormalizeOnce ==
    /\ npPc = "start"
    /\ npOnce' = normalizePath(npArg)
    /\ npPc' = "once"
    /\ UNCHANGED <<npArg, npTwice, bpArgs, bpResult, registryVars, resolved, metaVars, diVars,
                   appVars, managerVars, reqVars>>

NormalizeTwice ==
    /\ npPc = "once"
    /\ npTwice' = normalizePath(npOnce)
    /\ npPc' = "twice"
    /\ UNCHANGED <<npArg, npOnce, bpArgs, bpResult, registryVars, resolved, metaVars, diVars,
                   appVars,
                   managerVars, reqVars>>

\* ------------------------------------------------------------------------
\* MetadataRegistry: component registries
\* ------------------------------------------------------------------------
\* `${controller.name}:${String(handlerName)}`
\* controller.name
ClassName(c) == names[c]

\* Every controller class has its own name
DistinctNames == [c \in Controllers |-> IF c = "c1" THEN "Users" ELSE "Admin"]

\* Two controller classes declared in different files under one name
SameNames == [c \in Controllers |-> "Users"]

handlerKey(c, h) == <<ClassName(c), ":", h>>

HandlerKeys == {<<name, ":", h>> : name \in ClassNames, h \in Handlers}

\* Set.prototype.add on a Set kept in insertion order
SetAdd(set, x) == IF \E i \in 1..Len(set) : set[i] = x THEN set ELSE Append(set, x)

NoResult == [kind |-> "none", controller |-> "none", handler |-> "none",
             path |-> <<>>, result |-> <<>>]

RegistryEmpty ==
    /\ global = [k \in Kinds |-> <<>>]
    /\ globalWithPath = [k \in Kinds |-> <<>>]
    /\ controller = [k \in Kinds |-> [c \in Controllers |-> <<>>]]
    /\ handler = [k \in Kinds |-> [key \in HandlerKeys |-> <<>>]]
    /\ resolved = NoResult

NoOptions == [prefix |-> Undef, version |-> [t |-> "undefined", v |-> <<>>]]
NoIndex == [defined |-> FALSE, index |-> 0]

\* No controller is declared
MetaNone ==
    /\ controllers = [c \in Controllers |-> Undef]
    /\ controllerOptions = [c \in Controllers |-> NoOptions]
    /\ routes = [c \in Controllers |-> <<>>]
    /\ parameters = [c \in Controllers |-> [h \in Handlers |-> <<>>]]
    /\ contextIndices = [c \in Controllers |-> [h \in Handlers |-> NoIndex]]
    /\ names = DistinctNames

Modules == {"M1", "M2", "M3"}
Services == {"S1", "S2", "S3"}

\* MetadataRegistry.getModuleOptions of a class @Module was never applied to
NoModule == [decorated |-> FALSE, imports |-> <<>>, services |-> <<>>, controllers |-> <<>>]

\* Classes given to a Container used on its own
Classes == {"A", "B", "C"}

\* Map.prototype.get for a class the map has no entry for
NoInstance == [origin |-> "none", class |-> "none", n |-> 0]

\* No Container is used on its own
ContainerNone ==
    /\ paramtypes = [c \in Classes |-> <<>>]
    /\ cache = [c \in Classes |-> NoInstance]
    /\ constructed = [c \in Classes |-> 0]
    /\ diCalls = <<>>

NoApplication == [state |-> "none", middleware |-> <<>>]

\* No module is declared and no application is constructed
\* Application.create is not running
NoBoot == [pc |-> "none", i |-> 0, root |-> "none", plugins |-> <<>>, hooks |-> <<>>]

AppNone ==
    /\ modules = [m \in Modules |-> NoModule]
    /\ app = NoApplication
    /\ honoUse = <<>>
    /\ appCalls = <<>>
    /\ boot = NoBoot

\* No RouteManager is in use
ManagerIdle ==
    /\ globalPrefix = Undef
    /\ globalVersion = [t |-> "undefined", v |-> <<>>]
    /\ routeRegistry = <<>>
    /\ hono = <<>>
    /\ instances = {}
    /\ diFailing = {}
    /\ regCalls = <<>>

\* A value on its way to the handler: what it is made of (the parameter it was
\* extracted for, then every pipe that transformed it) and whether it is a promise
NoValue == [v |-> <<>>, promise |-> FALSE, rejected |-> FALSE]
NoException == [type |-> "none", status |-> 0, message |-> "", origin |-> "none"]
\* What the closure returns: status 0 stands for a value no framework builder made
NoResponse == [kind |-> "none", value |-> Undef, by |-> "none", status |-> 0]

\* No request is being served
RequestIdle ==
    /\ req = [pc |-> "idle", route |-> 0, path |-> <<>>, ctxSet |-> FALSE,
              guards |-> <<>>, i |-> 0, p |-> 0, j |-> 0, value |-> NoValue,
              args |-> <<>>, exception |-> NoException, scope |-> 0,
              filters |-> <<>>, result |-> NoResponse]
    /\ log = <<>>

\* MetadataRegistry.registerGlobal(type, component)
registerGlobal(type, component) ==
    /\ global' = [global EXCEPT ![type] = SetAdd(@, component)]
    /\ UNCHANGED <<globalWithPath, controller, handler>>

\* MetadataRegistry.registerGlobalWithPath(type, {path, component})
registerGlobalWithPath(type, path, component) ==
    /\ globalWithPath' = [globalWithPath EXCEPT
                            ![type] = Append(@, [path |-> path, component |-> component])]
    /\ UNCHANGED <<global, controller, handler>>

\* MetadataRegistry.registerController(type, controller, component)
registerControllerComponent(type, c, component) ==
    /\ controller' = [controller EXCEPT ![type][c] = Append(@, component)]
    /\ UNCHANGED <<global, globalWithPath, handler>>

\* ComponentManager.registerHandler builds the key and calls
\* MetadataRegistry.registerHandler(type, handlerKey, component)
registerHandler(type, c, h, component) ==
    /\ handler' = [handler EXCEPT ![type][handlerKey(c, h)] = Append(@, component)]
    /\ UNCHANGED <<global, globalWithPath, controller>>

\* MetadataRegistry.getGlobal / getGlobalWithPath / getController / getHandler
getGlobal(type) == global[type]
getGlobalWithPath(type) == globalWithPath[type]
getController(type, c) == controller[type][c]
getHandler(type, key) == handler[type][key]

\* A match that ends at a segment boundary only
RECURSIVE matchingPathSegmentAware(_, _)
matchingPathSegmentAware(entries, routePath) ==
    IF entries = <<>> THEN <<>>
    ELSE (IF \/ routePath = normalizePath(Head(entries).path)
             \/ startsWith(routePath, normalizePath(Head(entries).path) \o <<"/">>)
          THEN <<Head(entries).component>> ELSE <<>>)
         \o matchingPathSegmentAware(Tail(entries), routePath)

\* Array.prototype.filter(...).map(c => c.component) over path-scoped entries
RECURSIVE matchingPath(_, _)
matchingPath(entries, routePath) ==
    IF entries = <<>> THEN <<>>
    ELSE (IF startsWith(routePath, normalizePath(Head(entries).path))
          THEN <<Head(entries).component>> ELSE <<>>)
         \o matchingPath(Tail(entries), routePath)

\* getComponents with the handler-scope components ahead of the controller-scope ones
getComponentsHandlerFirst(type, c, h, routePath) ==
    LET handlerComponents == getHandler(type, handlerKey(c, h))
        controllerComponents == getController(type, c)
    IN  IF type = "middleware"
        THEN controllerComponents \o handlerComponents
        ELSE getGlobal(type) \o matchingPath(getGlobalWithPath(type), routePath)
             \o handlerComponents \o controllerComponents

\* ComponentManager.getComponents(type, controller, handlerName, routePath)
getComponents(type, c, h, routePath) ==
    LET handlerComponents == getHandler(type, handlerKey(c, h))
        controllerComponents == getController(type, c)
    IN  IF type = "middleware"
        THEN controllerComponents \o handlerComponents
        ELSE getGlobal(type) \o matchingPath(getGlobalWithPath(type), routePath)
             \o controllerComponents \o handlerComponents

\* ------------------------------------------------------------------------
\* Versions, path composition (RouteManager)
\* ------------------------------------------------------------------------
\* A version is undefined, null, VERSION_NEUTRAL, a number or a list of numbers
VUndef == [t |-> "undefined", v |-> <<>>]
VNull == [t |-> "null", v |-> <<>>]
VERSION_NEUTRAL == [t |-> "neutral", v |-> <<>>]
VNum(n) == [t |-> "number", v |-> <<n>>]
VArr(list) == [t |-> "array", v |-> list]

VersionLists == SeqsUpTo(1..MaxVersion, MaxVersionListLen)
Versions ==
    {VUndef, VNull, VERSION_NEUTRAL} \cup {VNum(n) : n \in 1..MaxVersion}
    \cup {VArr(l) : l \in VersionLists}

versionIsNil(version) == version = VNull \/ version = VUndef

\* RouteManager.normalizePath(path: unknown), for a string, null or undefined
RouteManager_normalizePath(path) ==
    IF isNil(path) THEN <<>> ELSE normalizePath(path)

\* The method path put before the controller path
buildRoutePathMethodFirst(prefix, version, controllerPath, methodPath) ==
    normalizePath(prefix \o version \o methodPath \o controllerPath)

\* RouteManager.buildRoutePath
buildRoutePath(prefix, version, controllerPath, methodPath) ==
    normalizePath(prefix \o version \o controllerPath \o methodPath)

\* buildRoutePath applied to four segments
BuildRoutePath ==
    /\ bpArgs # <<>>
    /\ bpResult = Undef
    /\ bpResult' = buildRoutePath(bpArgs[1], bpArgs[2], bpArgs[3], bpArgs[4])
    /\ UNCHANGED <<npArg, npOnce, npTwice, npPc, bpArgs, registryVars, resolved, metaVars,
                   diVars, appVars,
                   managerVars, reqVars>>

\* RouteManager.formatVersionSegment
formatVersionSegment(version) ==
    IF versionIsNil(version) THEN <<>>
    ELSE IF version = VERSION_NEUTRAL THEN <<>>
    ELSE <<"/", "v", ToString(version.v[1])>>

\* '/:version{v[0-9]+}'
WildcardSegment == <<"/", ":version{v[0-9]+}">>

\* method.toUpperCase()
toUpperCase(method) ==
    CASE method = "get" -> "GET"
      [] method = "post" -> "POST"
      [] OTHER -> method

\* ------------------------------------------------------------------------
\* DI container and component resolution
\* ------------------------------------------------------------------------
\* Container.resolve for a class without constructor parameters: the cached
\* instance, or a new instance that is cached, or the constructor's error
resolveClass(target, inst) ==
    IF target \in inst THEN [err |-> "none", inst |-> inst]
    ELSE IF target \in diFailing THEN [err |-> "DIError", inst |-> inst]
    ELSE [err |-> "none", inst |-> inst \cup {target}]

\* ComponentManager.resolveMiddleware / resolveGuards / resolvePipes: a ready
\* instance is used as it is, a class reference is resolved by the container
RECURSIVE resolveComponents(_, _)
resolveComponents(items, inst) ==
    IF items = <<>> THEN [err |-> "none", inst |-> inst, out |-> <<>>]
    ELSE LET first == IF Head(items) \in Instances
                      THEN [err |-> "none", inst |-> inst]
                      ELSE resolveClass(Head(items), inst)
             rest == resolveComponents(Tail(items), first.inst)
         IN  IF first.err # "none"
             THEN [err |-> first.err, inst |-> first.inst, out |-> <<>>]
             ELSE [err |-> rest.err, inst |-> rest.inst,
                   out |-> IF rest.err = "none" THEN <<Head(items)>> \o rest.out ELSE <<>>]

\* getComponents evaluates routePath.startsWith for every path-scoped entry of
\* the kind: with routePath undefined that is a TypeError
getComponentsThrows(type, routePath) ==
    /\ type # "middleware"
    /\ routePath = Undef
    /\ getGlobalWithPath(type) # <<>>

\* The middleware of a route with the global middleware in front
getHandlerMiddlewareWithGlobal(c, h, inst) ==
    resolveComponents(getGlobal("middleware") \o getComponents("middleware", c, h, <<>>), inst)

\* ComponentManager.getHandlerMiddleware(controller, handlerName)
getHandlerMiddleware(c, h, inst) ==
    resolveComponents(getComponents("middleware", c, h, <<>>), inst)

\* ComponentManager.getHandlerPipes(controller, handlerName, routePath)
getHandlerPipes(c, h, routePath, inst) ==
    IF getComponentsThrows("pipe", routePath)
    THEN [err |-> "TypeError", inst |-> inst, out |-> <<>>]
    ELSE resolveComponents(getComponents("pipe", c, h, routePath), inst)

\* ComponentManager.getHandlerGuards(controller, handlerName, routePath)
getHandlerGuards(c, h, routePath, inst) ==
    IF getComponentsThrows("guard", routePath)
    THEN [err |-> "TypeError", inst |-> inst, out |-> <<>>]
    ELSE resolveComponents(getComponents("guard", c, h, routePath), inst)

\* The pipes of the handler looked up again when a request is served
handlerPipesPerRequest(w) ==
    getHandlerPipes(w.controllerClass, w.handlerName, Undef, instances).out

\* handlerPipes: the constant of registerRoute that the closure refers to
handlerPipesOf(w) == w.handlerPipes

\* ------------------------------------------------------------------------
\* RouteManager.registerController and registerRoute
\* ------------------------------------------------------------------------
\* controllerOptions.version !== undefined ? controllerOptions.version : globalVersion
effectiveControllerVersion(controllerVersion) ==
    IF controllerVersion # VUndef THEN controllerVersion ELSE globalVersion

\* A route version of null taken for an absent one
effectiveVersionNullInherits(routeVersion, controllerVersion) ==
    IF ~versionIsNil(routeVersion) THEN routeVersion
    ELSE effectiveControllerVersion(controllerVersion)

\* routeVersion !== undefined ? routeVersion : effectiveControllerVersion
effectiveVersion(routeVersion, controllerVersion) ==
    IF routeVersion # VUndef THEN routeVersion
    ELSE effectiveControllerVersion(controllerVersion)

\* The neutral marker registered once, at the unversioned path only
versionSegmentsNeutralOnce(version) ==
    IF versionIsNil(version) \/ version = VERSION_NEUTRAL THEN << <<>> >>
    ELSE IF version.t = "array"
    THEN [i \in 1..Len(version.v) |-> formatVersionSegment(VNum(version.v[i]))]
    ELSE <<formatVersionSegment(version)>>

\* The version list registered once per distinct version
versionSegmentsDeduplicated(version) ==
    IF versionIsNil(version) THEN << <<>> >>
    ELSE IF version = VERSION_NEUTRAL THEN << <<>>, WildcardSegment >>
    ELSE IF version.t = "array"
    THEN LET first == {i \in 1..Len(version.v) :
                          \A j \in 1..(i - 1) : version.v[j] # version.v[i]}
             kept == SelectSeq([i \in 1..Len(version.v) |-> i], LAMBDA i : i \in first)
         IN  [i \in 1..Len(kept) |-> formatVersionSegment(VNum(version.v[kept[i]]))]
    ELSE <<formatVersionSegment(version)>>

\* An empty version list taken for no version at all: one unversioned call
versionSegmentsEmptyListUnversioned(version) ==
    IF versionIsNil(version) THEN << <<>> >>
    ELSE IF version = VERSION_NEUTRAL THEN << <<>>, WildcardSegment >>
    ELSE IF version.t = "array"
    THEN IF version.v = <<>> THEN << <<>> >>
         ELSE [i \in 1..Len(version.v) |-> formatVersionSegment(VNum(version.v[i]))]
    ELSE <<formatVersionSegment(version)>>

\* The version segments registerController passes to registerRoute for one route,
\* in the order of the calls
versionSegments(version) ==
    IF versionIsNil(version) THEN << <<>> >>
    ELSE IF version = VERSION_NEUTRAL THEN << <<>>, WildcardSegment >>
    ELSE IF version.t = "array"
    THEN [i \in 1..Len(version.v) |-> formatVersionSegment(VNum(version.v[i]))]
    ELSE <<formatVersionSegment(version)>>

\* A new entry put in front of the catalog
RouteRegistry_registerRouteInFront(catalog, routeInfo) == <<routeInfo>> \o catalog

\* RouteRegistry.registerRoute(routeInfo): this.routes.push(routeInfo)
RouteRegistry_registerRoute(catalog, routeInfo) == Append(catalog, routeInfo)

\* RouteRegistry.getRoutes()
getRoutes == routeRegistry

\* The catalog entry pushed before the middleware and the pipes of the handler
\* are looked up, so that a failing lookup leaves the entry without a registration
registerRouteCatalogFirst(acc, c, route, prefix, versionSegment, controllerSegment, methodSegment) ==
    LET h == route.handlerName
        fullPath == buildRoutePath(prefix, versionSegment, controllerSegment, methodSegment)
        mw == getHandlerMiddleware(c, h, acc.inst)
        pipes == getHandlerPipes(c, h, Undef, mw.inst)
        info == [controller |-> ClassName(c), handler |-> h, method |-> route.method,
                 prefix |-> prefix, version |-> versionSegment,
                 route |-> controllerSegment, path |-> methodSegment,
                 fullPath |-> fullPath, parameters |-> parameters[c][h]]
        wrapper == [controllerClass |-> c, handlerName |-> h,
                    handlerParams |-> parameters[c][h],
                    contextIndex |-> contextIndices[c][h],
                    handlerPipes |-> pipes.out]
        registration == [method |-> toUpperCase(route.method), path |-> fullPath,
                         middleware |-> mw.out, wrapper |-> wrapper]
        pushed == RouteRegistry_registerRoute(acc.catalog, info)
    IN  IF acc.err # "none" THEN acc
        ELSE IF mw.err # "none"
        THEN [acc EXCEPT !.catalog = pushed, !.err = mw.err, !.inst = mw.inst]
        ELSE IF pipes.err # "none"
        THEN [acc EXCEPT !.catalog = pushed, !.err = pipes.err, !.inst = pipes.inst]
        ELSE [catalog |-> pushed,
              hono |-> Append(acc.hono, registration),
              inst |-> pipes.inst, err |-> "none"]

\* RouteManager.registerRoute: acc is the catalog, the router's registrations and
\* the container so far, with the error thrown so far
registerRoute(acc, c, route, prefix, versionSegment, controllerSegment, methodSegment) ==
    LET h == route.handlerName
        fullPath == buildRoutePath(prefix, versionSegment, controllerSegment, methodSegment)
        mw == getHandlerMiddleware(c, h, acc.inst)
        pipes == getHandlerPipes(c, h, Undef, mw.inst)
        info == [controller |-> ClassName(c), handler |-> h, method |-> route.method,
                 prefix |-> prefix, version |-> versionSegment,
                 route |-> controllerSegment, path |-> methodSegment,
                 fullPath |-> fullPath, parameters |-> parameters[c][h]]
        wrapper == [controllerClass |-> c, handlerName |-> h,
                    handlerParams |-> parameters[c][h],
                    contextIndex |-> contextIndices[c][h],
                    handlerPipes |-> pipes.out]
        registration == [method |-> toUpperCase(route.method), path |-> fullPath,
                         middleware |-> mw.out, wrapper |-> wrapper]
    IN  IF acc.err # "none" THEN acc
        ELSE IF mw.err # "none" THEN [acc EXCEPT !.err = mw.err, !.inst = mw.inst]
        ELSE IF pipes.err # "none" THEN [acc EXCEPT !.err = pipes.err, !.inst = pipes.inst]
        ELSE [catalog |-> RouteRegistry_registerRoute(acc.catalog, info),
              hono |-> Append(acc.hono, registration),
              inst |-> pipes.inst, err |-> "none"]

RECURSIVE registerSegments(_, _, _, _, _, _)
registerSegments(acc, c, route, segments, prefixSegment, controllerSegment) ==
    IF segments = <<>> THEN acc
    ELSE registerSegments(
            registerRoute(acc, c, route, prefixSegment, Head(segments), controllerSegment,
                          RouteManager_normalizePath(route.path)),
            c, route, Tail(segments), prefixSegment, controllerSegment)

RECURSIVE registerRoutes(_, _, _, _, _)
registerRoutes(acc, c, rs, prefixSegment, controllerSegment) ==
    IF rs = <<>> THEN acc
    ELSE registerRoutes(
            registerSegments(acc, c, Head(rs),
                versionSegments(effectiveVersion(Head(rs).version,
                                                 controllerOptions[c].version)),
                prefixSegment, controllerSegment),
            c, Tail(rs), prefixSegment, controllerSegment)

\* MetadataRegistry.getControllerPath: '' for a class @Controller was not applied to
getControllerPath(c) == IF controllers[c] = Undef THEN <<>> ELSE controllers[c]

\* RouteManager.registerController(controllerClass), from the catalog, router
\* and container contents of acc
\* Registration that goes on after the container failed to build the controller
registerControllerUnresolved(acc, c) ==
    LET effectivePrefix == IF ~isNil(controllerOptions[c].prefix)
                           THEN controllerOptions[c].prefix ELSE globalPrefix
        prefixSegment == IF ~isNil(effectivePrefix)
                         THEN RouteManager_normalizePath(effectivePrefix) ELSE <<>>
        controllerSegment == RouteManager_normalizePath(getControllerPath(c))
    IN  registerRoutes(acc, c, routes[c], prefixSegment, controllerSegment)

registerControllerIn(acc, c) ==
    LET controllerInstance == resolveClass(c, acc.inst)
        effectivePrefix == IF ~isNil(controllerOptions[c].prefix)
                           THEN controllerOptions[c].prefix ELSE globalPrefix
        prefixSegment == IF ~isNil(effectivePrefix)
                         THEN RouteManager_normalizePath(effectivePrefix) ELSE <<>>
        controllerSegment == RouteManager_normalizePath(getControllerPath(c))
        start == [catalog |-> acc.catalog, hono |-> acc.hono,
                  inst |-> controllerInstance.inst, err |-> controllerInstance.err]
    IN  registerRoutes(start, c, routes[c], prefixSegment, controllerSegment)

\* RouteManager.registerController(controllerClass)
registerController(c) ==
    registerControllerIn([catalog |-> routeRegistry, hono |-> hono, inst |-> instances,
                          err |-> "none"], c)

\* A controller is registered once, while no request is being served
RegisterControllerOf(c) ==
        /\ req.pc = "idle"
        /\ \A i \in 1..Len(regCalls) : regCalls[i].controller # c
        /\ LET done == registerController(c)
           IN  /\ routeRegistry' = done.catalog
               /\ hono' = done.hono
               /\ instances' = done.inst
               /\ regCalls' = Append(regCalls,
                                [controller |-> c, from |-> Len(routeRegistry),
                                 to |-> Len(done.catalog), err |-> done.err])
        /\ UNCHANGED req
        /\ UNCHANGED <<pathVars, registryVars, resolved, metaVars, diVars, appVars, globalPrefix,
                       globalVersion, diFailing, log>>

RegisterController == \E c \in Controllers : RegisterControllerOf(c)

\* ------------------------------------------------------------------------
\* Controllers as declared by @Controller and the HTTP method decorators, and a
\* RouteManager constructed with a global prefix and version
\* ------------------------------------------------------------------------
ParamId == [index |-> 0, name |-> "param", data |-> "id", metatype |-> "String",
            factory |-> "sync"]

\* createHttpMethodDecorator: MetadataRegistry.addRoute
RouteDefinition(path, method, handlerName, version) ==
    [path |-> path, method |-> method, handlerName |-> handlerName,
     version |-> version, prefix |-> Undef]

\* What makes registration throw, if anything: a controller the container cannot
\* construct, a path-scoped global pipe, a pipe class it cannot construct
Faults == {"none", "controller", "scopedPipe", "classPipe"}

InitRegistration ==
    /\ PathIdle
    /\ names = DistinctNames
    /\ \E fault \in Faults :
        /\ diFailing = (CASE fault = "controller" -> {"c2"}
                          [] fault = "classPipe" -> {"K2"}
                          [] OTHER -> {})
        /\ global = [k \in Kinds |-> IF k = "middleware" THEN <<"I3">> ELSE <<>>]
        /\ globalWithPath =
              [k \in Kinds |->
                  IF k = "pipe" /\ fault = "scopedPipe"
                  THEN <<[path |-> <<"/", "a">>, component |-> "I1"]>>
                  ELSE IF k = "middleware"
                  THEN <<[path |-> <<"/">>, component |-> "I2"]>> ELSE <<>>]
        /\ controller =
              [k \in Kinds |-> [c \in Controllers |->
                  IF k = "middleware" /\ c = "c1" THEN <<"K1">> ELSE <<>>]]
        /\ handler =
              [k \in Kinds |-> [key \in HandlerKeys |->
                  IF k = "middleware" /\ key = handlerKey("c1", "h1") THEN <<"I1", "I2">>
                  ELSE IF k = "pipe" /\ key = handlerKey("c1", "h1") THEN <<"I2">>
                  ELSE IF k = "pipe" /\ key = handlerKey("c1", "h2") /\ fault = "classPipe"
                  THEN <<"K2">> ELSE <<>>]]
    /\ resolved = NoResult
    /\ controllers = [c \in Controllers |-> IF c = "c1" THEN <<"a">> ELSE <<>>]
    /\ \E p \in {Undef, Null, <<"b", "/">>},
          v \in {VUndef, VNull, VNum(2), VERSION_NEUTRAL, VArr(<<2, 1>>)} :
          controllerOptions = [c \in Controllers |->
              IF c = "c1" THEN [prefix |-> p, version |-> v] ELSE NoOptions]
    /\ \E v1 \in Versions, v2 \in {VUndef, VNull}, rp \in {Undef, Null, <<"c">>} :
          routes = [c \in Controllers |->
              IF c = "c1"
              THEN <<RouteDefinition(<<"b">>, "get", "h1", v1),
                     RouteDefinition(<<>>, "post", "h2", VUndef)>>
              ELSE <<[RouteDefinition(<<"/">>, "get", "h1", v2) EXCEPT !.prefix = rp]>>]
    /\ parameters = [c \in Controllers |-> [h \in Handlers |->
                        IF c = "c1" /\ h = "h1" THEN <<ParamId>> ELSE <<>>]]
    /\ contextIndices = [c \in Controllers |-> [h \in Handlers |-> NoIndex]]
    \* new RouteManager(hono, container, {prefix, version})
    /\ \E p \in {Undef, <<"a", "/">>} :
          globalPrefix = IF p # Undef THEN RouteManager_normalizePath(p) ELSE Undef
    /\ globalVersion \in {VUndef, VNum(1), VERSION_NEUTRAL}
    /\ routeRegistry = <<>>
    /\ hono = <<>>
    /\ instances = {}
    /\ regCalls = <<>>
    /\ RequestIdle
    /\ AppNone
    /\ ContainerNone

NextRegistration == RegisterController

\* ------------------------------------------------------------------------
\* The dispatch closure of a registered route (wrapperHandler) and
\* ComponentManager.handleException, one step per awaited call
\* ------------------------------------------------------------------------
AnObject == <<"#object">>
AResponse == <<"#response">>

\* utils: isString(val)
isString(val) == val \notin {Undef, Null, AnObject, AResponse}

\* What a handler may return: undefined, null, '', 'ok', an object, a Response
HandlerReturns == {Undef, Null, <<>>, <<"o", "k">>, AnObject, AResponse}

\* new HTTPException(403, {message: 'Forbidden'})
Forbidden == [type |-> "HTTPException", status |-> 403, message |-> "Forbidden",
              origin |-> "wrapper"]

\* An error thrown by user code or by the framework's own calls
ErrorOf(type, origin) == [type |-> type, status |-> 0, message |-> "", origin |-> origin]

\* createErrorResponse(exception, context).status
errorStatus(exception) ==
    IF exception.type = "HTTPException" THEN exception.status
    ELSE IF exception.status # 0 THEN exception.status
    ELSE 500

\* context.json(createErrorResponse(exception, context)): the status computed by
\* the formatter is a field of the body, context.json is given no status
defaultResponse(exception) ==
    [kind |-> "json",
     value |-> <<"#error", exception.type, ToString(errorStatus(exception))>>,
     by |-> "default", status |-> 200]

\* The widest scope consulted first
ScopeOrderGlobalFirst == <<"global", "controller", "handler">>

\* The order of the three blocks of handleException
ScopeOrder == <<"handler", "controller", "global">>

\* The filters handleException reads for a scope
scopeFilters(scope, c, h, path) ==
    CASE scope = "handler" -> getHandler("filter", handlerKey(c, h))
      [] scope = "controller" -> getController("filter", c)
      [] scope = "global" ->
            getGlobal("filter") \o matchingPath(getGlobalWithPath("filter"), path)

LogEntry(op, who, scope, out, exc, val, args) ==
    [op |-> op, who |-> who, scope |-> scope, out |-> out, exc |-> exc, val |-> val,
     args |-> args]

\* handleException from its k-th scope on: the first scope that has filters is
\* handed to executeFilters, and with none left the default response is returned
RECURSIVE enterScope(_, _)
enterScope(r, k) ==
    IF k > Len(ScopeOrder)
    THEN [r EXCEPT !.pc = "done", !.scope = 0, !.filters = <<>>, !.i = 0,
                   !.result = defaultResponse(r.exception)]
    ELSE LET w == hono[r.route].wrapper
             \* context.get('controllerClass') and context.get('handlerName')
             found == IF ScopeOrder[k] # "global" /\ ~r.ctxSet THEN <<>>
                      ELSE scopeFilters(ScopeOrder[k], w.controllerClass, w.handlerName,
                                        r.path)
         IN  IF found # <<>>
             THEN [r EXCEPT !.pc = "filters", !.scope = k, !.filters = found, !.i = 1]
             ELSE enterScope(r, k + 1)

\* catch (error) { return ComponentManager.handleException(error, c) }
handleException(r, exception) == enterScope([r EXCEPT !.exception = exception], 1)

\* handler.length: the handlers modelled declare decorated parameters only
handlerLength(params) ==
    LET indexes == {params[k].index : k \in 1..Len(params)}
    IN  IF indexes = {} THEN 0
        ELSE 1 + CHOOSE m \in indexes : \A n \in indexes : n <= m

UndefinedValue == [v |-> Undef, promise |-> FALSE, rejected |-> FALSE]

\* const args = new Array(handler.length), then the parameter loop or the handler
afterGuards(r) ==
    LET params == hono[r.route].wrapper.handlerParams
    IN  [r EXCEPT !.pc = IF params = <<>> THEN "handler" ELSE "params",
                  !.i = 0, !.p = 1,
                  !.args = [k \in 1..handlerLength(params) |-> UndefinedValue]]

\* The value stored at the position of the parameter in the iteration
finishParamInOrder(r, value) ==
    LET params == hono[r.route].wrapper.handlerParams
    IN  [r EXCEPT !.args = [k \in 1..Len(r.args) |-> IF k = r.p THEN value ELSE r.args[k]],
                  !.value = NoValue, !.j = 0, !.p = r.p + 1,
                  !.pc = IF r.p < Len(params) THEN "params" ELSE "handler"]

\* args[param.index] = transformedValue, then the next parameter or the handler
finishParam(r, value) ==
    LET params == hono[r.route].wrapper.handlerParams
        param == params[r.p]
    IN  [r EXCEPT !.args[param.index + 1] = value, !.value = NoValue, !.j = 0,
                  !.p = r.p + 1,
                  !.pc = IF r.p < Len(params) THEN "params" ELSE "handler"]

\* Every result wrapped as JSON
serializeAlwaysJson(contextIndex, result) ==
    IF contextIndex.defined
    THEN [kind |-> "raw", value |-> result, by |-> "handler", status |-> 0]
    ELSE [kind |-> "json", value |-> IF isNil(result) THEN Null ELSE result,
          by |-> "handler", status |-> 200]

\* The context index not looked at
serializeIgnoringContext(contextIndex, result) ==
    IF isNil(result)
    THEN [kind |-> "json", value |-> Null, by |-> "handler", status |-> 200]
    ELSE IF isString(result)
    THEN [kind |-> "text", value |-> result, by |-> "handler", status |-> 200]
    ELSE [kind |-> "json", value |-> result, by |-> "handler", status |-> 200]

\* The automatic serialization at the end of the closure
serialize(contextIndex, result) ==
    IF contextIndex.defined
    THEN [kind |-> "raw", value |-> result, by |-> "handler", status |-> 0]
    ELSE IF isNil(result)
    THEN [kind |-> "json", value |-> Null, by |-> "handler", status |-> 200]
    ELSE IF isString(result)
    THEN [kind |-> "text", value |-> result, by |-> "handler", status |-> 200]
    ELSE [kind |-> "json", value |-> result, by |-> "handler", status |-> 200]

\* A closure that stores nothing in the context
enterContextUnset(r, n) == [r EXCEPT !.route = n, !.path = hono[n].path]

\* c.set('controllerClass', controllerClass) and c.set('handlerName', ...) on the
\* context of a request for the n-th registration
enterContext(r, n) == [r EXCEPT !.route = n, !.path = hono[n].path, !.ctxSet = TRUE]

\* The router calls the closure of a registered route: c.set(...), then
\* getHandlerGuards(controllerClass, handlerName) with no route path
Dispatch ==
    /\ req.pc = "idle"
    /\ \E n \in 1..Len(hono) :
          LET w == hono[n].wrapper
              found == getHandlerGuards(w.controllerClass, w.handlerName, Undef, instances)
              entered == enterContext(req, n)
          IN  /\ instances' = found.inst
              /\ req' = IF found.err # "none"
                        THEN handleException(entered, ErrorOf(found.err, "getHandlerGuards"))
                        ELSE IF found.out = <<>> THEN afterGuards(entered)
                        ELSE [entered EXCEPT !.pc = "guards", !.guards = found.out, !.i = 1]
    /\ UNCHANGED <<pathVars, registryVars, resolved, metaVars, diVars, appVars, globalPrefix,
                   globalVersion,
                   routeRegistry, hono, diFailing, regCalls, log>>

\* A guard whose refusal is not acted on
guardOutcomeIgnoringRefusal(r, guard, out) ==
    IF out = "throws" THEN handleException(r, ErrorOf("Error", guard))
    ELSE IF r.i < Len(r.guards) THEN [r EXCEPT !.i = r.i + 1]
    ELSE afterGuards(r)

\* A guard that throws taken for a guard that refuses
guardOutcomeThrowAsRefusal(r, guard, out) ==
    CASE out = "true" ->
            IF r.i < Len(r.guards) THEN [r EXCEPT !.i = r.i + 1] ELSE afterGuards(r)
      [] out = "false" -> handleException(r, Forbidden)
      [] out = "throws" -> handleException(r, Forbidden)

\* The body of the guard loop once canActivate has settled
guardOutcome(r, guard, out) ==
    CASE out = "true" ->
            IF r.i < Len(r.guards) THEN [r EXCEPT !.i = r.i + 1] ELSE afterGuards(r)
      [] out = "false" -> handleException(r, Forbidden)
      [] out = "throws" -> handleException(r, ErrorOf("Error", guard))

\* const canActivate = await guard.canActivate(c)
GuardStep ==
    /\ req.pc = "guards"
    /\ LET guard == req.guards[req.i]
       IN  \E out \in {"true", "false", "throws"} :
              /\ log' = Append(log, LogEntry("canActivate", guard, "none", out,
                                             NoException, NoValue, <<>>))
              /\ req' = guardOutcome(req, guard, out)
    /\ UNCHANGED <<pathVars, registryVars, resolved, metaVars, diVars, appVars, managerVars>>

\* const rawValue = param.factory(param.data, c), then executePipes up to its
\* first await; without pipes the raw value is what the closure awaits
ParamFactory ==
    /\ req.pc = "params"
    /\ LET w == hono[req.route].wrapper
           param == w.handlerParams[req.p]
           async == param.factory = "async"
       IN  \E out \in {"returns", "throws"} :
              LET rawValue == [v |-> <<param.name, param.data>>, promise |-> async,
                               rejected |-> async /\ out = "throws"]
                  failure == ErrorOf("Error", param.name)
              IN  /\ log' = Append(log, LogEntry("factory", param.name, "none", out,
                                                 NoException, NoValue, <<>>))
                  /\ req' = IF out = "throws" /\ ~async THEN handleException(req, failure)
                            ELSE IF handlerPipesOf(w) # <<>>
                            THEN [req EXCEPT !.pc = "pipes", !.j = 1, !.value = rawValue]
                            ELSE IF rawValue.rejected THEN handleException(req, failure)
                            ELSE finishParam(req, [rawValue EXCEPT !.promise = FALSE])
    /\ UNCHANGED <<pathVars, registryVars, resolved, metaVars, diVars, appVars, managerVars>>

\* {type: param.type, metatype: param.metatype, data: param.data}: a stored
\* parameter has a name and no type
argumentMetadata(param) == [type |-> Undef, metatype |-> param.metatype, data |-> param.data]

\* What a pipe returns: it marks the value it was given
transform(value, pipe) ==
    [v |-> Append(value.v, pipe), promise |-> FALSE, rejected |-> FALSE]

\* The last pipe's input, not its output, returned by executePipes
pipeOutcomeInputKept(r, pipe, out) ==
    IF out = "throws" THEN handleException(r, ErrorOf("Error", pipe))
    ELSE IF r.j < Len(handlerPipesOf(hono[r.route].wrapper))
    THEN [r EXCEPT !.j = r.j + 1, !.value = transform(r.value, pipe)]
    ELSE finishParam(r, [r.value EXCEPT !.promise = FALSE])

\* The body of the loop of executePipes once transform has settled, and the
\* return of executePipes after the last pipe
pipeOutcome(r, pipe, out) ==
    IF out = "throws" THEN handleException(r, ErrorOf("Error", pipe))
    ELSE IF r.j < Len(handlerPipesOf(hono[r.route].wrapper))
    THEN [r EXCEPT !.j = r.j + 1, !.value = transform(r.value, pipe)]
    ELSE finishParam(r, transform(r.value, pipe))

\* transformedValue = await pipe.transform(transformedValue, metadata)
PipeStep ==
    /\ req.pc = "pipes"
    /\ LET w == hono[req.route].wrapper
           pipe == handlerPipesOf(w)[req.j]
       IN  \E out \in {"returns", "throws"} :
              /\ log' = Append(log, LogEntry("transform", pipe, "none", out, NoException,
                                             req.value, <<argumentMetadata(w.handlerParams[req.p])>>))
              /\ req' = pipeOutcome(req, pipe, out)
    /\ UNCHANGED <<pathVars, registryVars, resolved, metaVars, diVars, appVars, managerVars>>

\* const result = await handler(...args), then the serialization
HandlerCall ==
    /\ req.pc = "handler"
    /\ LET w == hono[req.route].wrapper
       IN  \E out \in HandlerReturns \cup {<<"#throws">>, <<"#throws", "404">>} :
              /\ log' = Append(log, LogEntry("handler", w.handlerName, "none", out,
                                             NoException, NoValue, req.args))
              /\ req' = IF out = <<"#throws">>
                        THEN handleException(req, ErrorOf("Error", w.handlerName))
                        ELSE IF out = <<"#throws", "404">>
                        THEN handleException(req, [ErrorOf("Error", w.handlerName)
                                                       EXCEPT !.status = 404])
                        ELSE [req EXCEPT !.pc = "done",
                                         !.result = serialize(w.contextIndex, out)]
    /\ UNCHANGED <<pathVars, registryVars, resolved, metaVars, diVars, appVars, managerVars>>

\* A falsy result taken for no result: the next filter of the scope is asked
filterOutcomeFalsySkipped(r, filterItem, out) ==
    IF out = AResponse
    THEN [r EXCEPT !.pc = "done",
                   !.result = [kind |-> "filter", value |-> out,
                               by |-> filterItem, status |-> 0]]
    ELSE IF r.i < Len(r.filters) THEN [r EXCEPT !.i = r.i + 1]
    ELSE enterScope(r, r.scope + 1)

\* executeFilters once catch has settled, and the test of its result in
\* handleException: a Response is returned, any other result that is not
\* undefined ends the loop of the scope, undefined and a throw go on to the next
\* filter
filterOutcome(r, filterItem, out) ==
    IF out = AResponse
    THEN [r EXCEPT !.pc = "done",
                   !.result = [kind |-> "filter", value |-> out,
                               by |-> filterItem, status |-> 0]]
    ELSE IF out = Null THEN enterScope(r, r.scope + 1)
    ELSE IF r.i < Len(r.filters) THEN [r EXCEPT !.i = r.i + 1]
    ELSE enterScope(r, r.scope + 1)

\* One turn of the loop of executeFilters, and what handleException does with
\* the value executeFilters returns
FilterStep ==
    /\ req.pc = "filters"
    /\ LET filterItem == req.filters[req.i]
           made == IF filterItem \in Instances THEN [err |-> "none", inst |-> instances]
                   ELSE resolveClass(filterItem, instances)
       IN  /\ instances' = made.inst
           /\ IF made.err # "none"
              THEN /\ req' = [req EXCEPT !.pc = "done",
                                         !.result = [kind |-> "rejected", value |-> <<made.err>>,
                                                     by |-> filterItem, status |-> 0]]
                   /\ log' = log
              ELSE \E out \in {Undef, Null, AResponse, <<"#throws">>} :
                      /\ log' = Append(log, LogEntry("catch", filterItem, ScopeOrder[req.scope],
                                                     out, req.exception, NoValue, <<>>))
                      /\ req' = filterOutcome(req, filterItem, out)
    /\ UNCHANGED <<pathVars, registryVars, resolved, metaVars, diVars, appVars, globalPrefix,
                   globalVersion,
                   routeRegistry, hono, diFailing, regCalls>>

\* ------------------------------------------------------------------------
\* An application with guards, pipes and filters registered at every scope,
\* one controller with two routes, and one request
\* ------------------------------------------------------------------------
\* @Body(): an asynchronous factory
ParamBody == [index |-> 0, name |-> "body", data |-> "#undefined", metatype |-> "Object",
              factory |-> "async"]
\* @Ctx() as second parameter: type 'context', which records the context index
ParamCtx == [index |-> 1, name |-> "context", data |-> "#undefined",
             metatype |-> "Object", factory |-> "sync"]

GuardSetups == {"none", "scopes", "classes", "pathScoped"}
FilterSetups == {"none", "scopes", "classLater"}
ParamSetups == {"none", "body", "context", "contextFirst", "gap"}
PipeSetups == {"none", "two"}

Scoped(path, component) == [path |-> path, component |-> component]

InitRequest ==
    /\ PathIdle
    /\ names = DistinctNames
    /\ diFailing = {"K2"}
    /\ \E gs \in GuardSetups, fs \in FilterSetups, ps \in PipeSetups :
        /\ global = [k \in Kinds |->
              CASE k = "guard" /\ gs = "scopes" -> <<"I1">>
                [] k = "guard" /\ gs = "classes" -> <<"K1">>
                [] k = "filter" /\ fs = "scopes" -> <<"K1">>
                [] k = "filter" /\ fs = "classLater" -> <<"I3">>
                [] k = "pipe" /\ ps = "two" -> <<"I1">>
                [] OTHER -> <<>>]
        /\ globalWithPath = [k \in Kinds |->
              CASE k = "guard" /\ gs = "pathScoped" -> <<Scoped(<<"/", "a">>, "I1")>>
                [] k = "filter" /\ fs = "scopes" ->
                      <<Scoped(<<"b">>, "I1"), Scoped(<<"/", "a", "/", "b", "b", "/">>, "I2"),
                        Scoped(<<"/", "a", "/", "b">>, "I3")>>
                [] OTHER -> <<>>]
        /\ controller = [k \in Kinds |-> [c \in Controllers |->
              CASE c = "c1" /\ k = "guard" /\ gs = "scopes" -> <<"I2">>
                [] c = "c1" /\ k = "filter" /\ fs = "scopes" -> <<"I3">>
                [] OTHER -> <<>>]]
        /\ handler = [k \in Kinds |-> [key \in HandlerKeys |->
              CASE key = handlerKey("c1", "h1") /\ k = "guard" /\ gs = "scopes" -> <<"I3">>
                [] key = handlerKey("c1", "h1") /\ k = "guard" /\ gs = "classes" -> <<"K2">>
                [] key = handlerKey("c1", "h1") /\ k = "filter" /\ fs = "scopes" ->
                      <<"I1", "I2">>
                [] key = handlerKey("c1", "h1") /\ k = "filter" /\ fs = "classLater" ->
                      <<"I1", "K2">>
                [] key = handlerKey("c1", "h1") /\ k = "pipe" /\ ps = "two" -> <<"I2">>
                [] OTHER -> <<>>]]
    /\ resolved = NoResult
    /\ controllers = [c \in Controllers |-> IF c = "c1" THEN <<"a">> ELSE <<>>]
    /\ controllerOptions = [c \in Controllers |-> NoOptions]
    /\ routes = [c \in Controllers |->
          IF c = "c1"
          THEN <<RouteDefinition(<<"b">>, "get", "h1", VUndef),
                 RouteDefinition(<<"b", "b">>, "post", "h2", VUndef)>>
          ELSE <<>>]
    /\ \E params \in ParamSetups :
        /\ parameters = [c \in Controllers |-> [h \in Handlers |->
              IF c = "c1" /\ h = "h1"
              THEN CASE params = "none" -> <<>>
                     [] params = "body" -> <<ParamBody>>
                     [] params = "context" -> <<ParamCtx, ParamId>>
                     [] params = "contextFirst" -> <<[ParamCtx EXCEPT !.index = 0]>>
                     [] params = "gap" -> <<[ParamId EXCEPT !.index = 2]>>
              ELSE <<>>]]
        /\ contextIndices = [c \in Controllers |-> [h \in Handlers |->
              CASE c = "c1" /\ h = "h1" /\ params = "context" ->
                      [defined |-> TRUE, index |-> ParamCtx.index]
                [] c = "c1" /\ h = "h1" /\ params = "contextFirst" ->
                      [defined |-> TRUE, index |-> 0]
                [] OTHER -> NoIndex]]
    /\ globalPrefix = Undef
    /\ globalVersion = VUndef
    /\ routeRegistry = <<>>
    /\ hono = <<>>
    /\ instances = {}
    /\ regCalls = <<>>
    /\ RequestIdle
    /\ AppNone
    /\ ContainerNone

NextRequest ==
    \/ RegisterControllerOf("c1")
    \/ Dispatch
    \/ GuardStep
    \/ ParamFactory
    \/ PipeStep
    \/ HandlerCall
    \/ FilterStep

\* ------------------------------------------------------------------------
\* Components registered before and after the routes of a controller, then one
\* request
\* ------------------------------------------------------------------------
RegistrationScopes == {"global", "controller", "handler"}
RegisteredAnyTime == {"I1", "I2"}
RegisterEntries == {k \in 1..Len(log) : log[k].op = "register"}

\* ComponentManager.registerGlobal / registerController / registerHandler called
\* by the application at any time between requests; the number of routes the
\* router holds at that time is noted with the call
RegisterComponent ==
    /\ req.pc = "idle"
    /\ Cardinality(RegisterEntries) < MaxComponents
    /\ \E type \in Kinds, scope \in RegistrationScopes, x \in RegisteredAnyTime :
          /\ \A k \in RegisterEntries : ~(log[k].out = type /\ log[k].who = x)
          /\ CASE scope = "global" -> registerGlobal(type, x)
               [] scope = "controller" -> registerControllerComponent(type, "c1", x)
               [] scope = "handler" -> registerHandler(type, "c1", "h1", x)
          /\ log' = Append(log, LogEntry("register", x, scope, type, NoException,
                                         NoValue, <<Len(hono)>>))
    /\ UNCHANGED <<req, pathVars, resolved, metaVars, diVars, appVars, managerVars>>

InitComponentsAnyTime ==
    /\ PathIdle
    /\ names = DistinctNames
    /\ diFailing = {}
    /\ global = [k \in Kinds |-> <<>>]
    /\ globalWithPath = [k \in Kinds |-> <<>>]
    /\ controller = [k \in Kinds |-> [c \in Controllers |-> <<>>]]
    /\ handler = [k \in Kinds |-> [key \in HandlerKeys |-> <<>>]]
    /\ resolved = NoResult
    /\ controllers = [c \in Controllers |-> IF c = "c1" THEN <<"a">> ELSE <<>>]
    /\ controllerOptions = [c \in Controllers |-> NoOptions]
    /\ routes = [c \in Controllers |->
          IF c = "c1" THEN <<RouteDefinition(<<"b">>, "get", "h1", VUndef)>> ELSE <<>>]
    /\ parameters = [c \in Controllers |-> [h \in Handlers |->
                        IF c = "c1" /\ h = "h1" THEN <<ParamId>> ELSE <<>>]]
    /\ contextIndices = [c \in Controllers |-> [h \in Handlers |-> NoIndex]]
    /\ globalPrefix = Undef
    /\ globalVersion = VUndef
    /\ routeRegistry = <<>>
    /\ hono = <<>>
    /\ instances = {}
    /\ regCalls = <<>>
    /\ RequestIdle
    /\ AppNone
    /\ ContainerNone

NextComponentsAnyTime ==
    \/ RegisterComponent
    \/ RegisterControllerOf("c1")
    \/ Dispatch
    \/ GuardStep
    \/ ParamFactory
    \/ PipeStep
    \/ HandlerCall
    \/ FilterStep

SpecComponentsAnyTime == InitComponentsAnyTime /\ [][NextComponentsAnyTime]_vars

\* ------------------------------------------------------------------------
\* Application: the constructor, ComponentManager.registerModule and
\* Application.register
\* ------------------------------------------------------------------------
RECURSIVE registerModule(_, _)
RECURSIVE registerImports(_, _)

\* The loop over moduleOptions.imports; services lists the classes the container
\* was asked for, in the order of the calls
registerImports(imports, inst) ==
    IF imports = <<>>
    THEN [err |-> "none", culprit |-> "none", inst |-> inst, controllers |-> <<>>,
          services |-> <<>>]
    ELSE LET first == registerModule(Head(imports), inst)
             rest == registerImports(Tail(imports), first.inst)
         IN  IF first.err # "none" THEN first
             ELSE IF rest.err # "none"
             THEN [rest EXCEPT !.services = first.services \o rest.services]
             ELSE [rest EXCEPT !.controllers = first.controllers \o rest.controllers,
                               !.services = first.services \o rest.services]

\* A class without @Module taken for a module with no options
registerModuleUnchecked(m, inst) ==
    LET imported == registerImports(modules[m].imports, inst)
        services == resolveComponents(modules[m].services, imported.inst)
    IN  IF imported.err # "none" THEN imported
        ELSE IF services.err # "none"
        THEN [err |-> services.err, culprit |-> m, inst |-> services.inst,
              controllers |-> <<>>, services |-> imported.services]
        ELSE [err |-> "none", culprit |-> "none", inst |-> services.inst,
              controllers |-> imported.controllers \o modules[m].controllers,
              services |-> imported.services \o modules[m].services]

\* The module's own services and controllers taken before those of its imports
registerModuleOwnFirst(m, inst) ==
    IF ~modules[m].decorated
    THEN [err |-> "NotDecorated", culprit |-> m, inst |-> inst, controllers |-> <<>>,
          services |-> <<>>]
    ELSE LET services == resolveComponents(modules[m].services, inst)
             imported == registerImports(modules[m].imports, services.inst)
         IN  IF services.err # "none"
             THEN [err |-> services.err, culprit |-> m, inst |-> services.inst,
                   controllers |-> <<>>, services |-> <<>>]
             ELSE IF imported.err # "none" THEN imported
             ELSE [err |-> "none", culprit |-> "none", inst |-> imported.inst,
                   controllers |-> modules[m].controllers \o imported.controllers,
                   services |-> modules[m].services \o imported.services]

\* ComponentManager.registerModule(moduleClass, container)
registerModule(m, inst) ==
    IF ~modules[m].decorated
    THEN [err |-> "NotDecorated", culprit |-> m, inst |-> inst, controllers |-> <<>>,
          services |-> <<>>]
    ELSE LET imported == registerImports(modules[m].imports, inst)
             services == resolveComponents(modules[m].services, imported.inst)
         IN  IF imported.err # "none" THEN imported
             ELSE IF services.err # "none"
             THEN [err |-> services.err, culprit |-> m, inst |-> services.inst,
                   controllers |-> <<>>, services |-> imported.services]
             ELSE [err |-> "none", culprit |-> "none", inst |-> services.inst,
                   controllers |-> imported.controllers \o modules[m].controllers,
                   services |-> imported.services \o modules[m].services]

\* for (const controller of controllers) await this.routeManager.registerController(controller)
RECURSIVE registerControllers(_, _, _)
registerControllers(acc, calls, cs) ==
    IF cs = <<>> \/ acc.err # "none" THEN [acc |-> acc, calls |-> calls]
    ELSE LET done == registerControllerIn(acc, Head(cs))
         IN  registerControllers(done,
                 Append(calls, [controller |-> Head(cs), from |-> Len(acc.catalog),
                                to |-> Len(done.catalog), err |-> done.err]),
                 Tail(cs))

\* RouteManager.applyGlobalMiddleware: one hono.use('*', middleware) per global
\* middleware the registry holds when the RouteManager is constructed
RECURSIVE applyGlobalMiddleware(_, _)
applyGlobalMiddleware(globalMiddleware, routesBefore) ==
    IF globalMiddleware = <<>> THEN <<>>
    ELSE <<[path |-> "*", middleware |-> Head(globalMiddleware),
            routesBefore |-> routesBefore]>>
         \o applyGlobalMiddleware(Tail(globalMiddleware), routesBefore)

\* An item of options.components.middleware that is a bare component
Unscoped(component) == [path |-> Undef, component |-> component]

\* isComponentWithpath(item)
isComponentWithpath(item) == item.path # Undef

\* setupGlobalComponents: register('middleware', components.middleware)
RECURSIVE setupGlobalMiddleware(_, _)
setupGlobalMiddleware(registry, items) ==
    IF items = <<>> THEN registry
    ELSE setupGlobalMiddleware(
            IF isComponentWithpath(Head(items))
            THEN [registry EXCEPT !.globalWithPath = Append(@, Head(items))]
            ELSE [registry EXCEPT !.global = SetAdd(@, Head(items).component)],
            Tail(items))

\* What options.components.middleware may hold
MiddlewareOptions ==
    {<<>>, <<Unscoped("I1")>>, <<Unscoped("I1"), Unscoped("I2")>>,
     <<Unscoped("I2"), Scoped(<<"/", "a">>, "I1")>>}

\* new Application(options): new Hono, new Container, new RouteManager (which
\* applies the global middleware), then setupComponents
Construct ==
    /\ app.state = "none"
    /\ \E middleware \in MiddlewareOptions, prefix \in {Undef, <<"/", "b">>} :
          LET registry == setupGlobalMiddleware(
                              [global |-> global["middleware"],
                               globalWithPath |-> globalWithPath["middleware"]],
                              middleware)
          IN  /\ hono' = <<>>
              /\ instances' = {}
              /\ globalPrefix' = IF prefix # Undef THEN RouteManager_normalizePath(prefix)
                                 ELSE Undef
              /\ globalVersion' = VUndef
              /\ honoUse' = applyGlobalMiddleware(getGlobal("middleware"), Len(hono'))
              /\ global' = [global EXCEPT !["middleware"] = registry.global]
              /\ globalWithPath' = [globalWithPath EXCEPT
                                       !["middleware"] = registry.globalWithPath]
              /\ app' = [state |-> "created", middleware |-> middleware]
    /\ UNCHANGED <<pathVars, controller, handler, resolved, metaVars, diVars, modules, appCalls,
                   routeRegistry, diFailing, regCalls, reqVars>>

\* new Application(options), called by the program itself
NewApplication == Construct /\ UNCHANGED boot

\* Application.register(moduleClass)
RegisterModule(m) ==
    /\ app.state = "created"
    /\ LET found == registerModule(m, instances)
              start == [catalog |-> routeRegistry, hono |-> hono, inst |-> found.inst,
                        err |-> "none"]
              done == IF found.err # "none"
                      THEN [acc |-> [start EXCEPT !.err = found.err], calls |-> regCalls]
                      ELSE registerControllers(start, regCalls, found.controllers)
          IN  /\ routeRegistry' = done.acc.catalog
              /\ hono' = done.acc.hono
              /\ instances' = done.acc.inst
              /\ regCalls' = done.calls
              /\ appCalls' = Append(appCalls,
                     [module |-> m, err |-> done.acc.err, culprit |-> found.culprit,
                      controllers |-> found.controllers,
                      services |-> found.services,
                      instancesBefore |-> instances, instancesAfter |-> done.acc.inst,
                      from |-> Len(routeRegistry), to |-> Len(done.acc.catalog),
                      callsBefore |-> Len(regCalls),
                      routesBefore |-> Len(hono), routesAfter |-> Len(done.acc.hono)])
    /\ UNCHANGED <<pathVars, registryVars, resolved, metaVars, diVars, modules, app, honoUse,
                   globalPrefix, globalVersion, diFailing, reqVars>>

\* app.register(moduleClass) called by the program: each module at most once
Register ==
    /\ \E m \in Modules :
          /\ \A k \in 1..Len(appCalls) : appCalls[k].module # m
          /\ RegisterModule(m)
    /\ UNCHANGED boot

\* The decorators of three modules, three services and two controllers ran; the
\* imports of a module only name modules declared after it
ModuleOptions(imports, services, controllerList) ==
    [decorated |-> TRUE, imports |-> imports, services |-> services,
     controllers |-> controllerList]

InitModules ==
    /\ PathIdle
    /\ names = DistinctNames
    /\ RequestIdle
    /\ ContainerNone
    /\ resolved = NoResult
    \* the registry is static: it holds what an earlier application left in it
    /\ \E left \in {<<>>, <<"I3">>} :
          global = [k \in Kinds |-> IF k = "middleware" THEN left ELSE <<>>]
    /\ globalWithPath = [k \in Kinds |-> <<>>]
    /\ controller = [k \in Kinds |-> [c \in Controllers |-> <<>>]]
    /\ handler = [k \in Kinds |-> [key \in HandlerKeys |-> <<>>]]
    \* c2 has routes declared by @Get and @Post, with or without @Controller('b')
    /\ \E path2 \in {Undef, <<"b">>} :
          controllers = [c \in Controllers |-> IF c = "c1" THEN <<"a">> ELSE path2]
    /\ controllerOptions = [c \in Controllers |-> NoOptions]
    /\ routes = [c \in Controllers |->
                    IF c = "c1" THEN <<RouteDefinition(<<"b">>, "get", "h1", VUndef)>>
                    ELSE <<RouteDefinition(<<>>, "get", "h1", VUndef),
                           RouteDefinition(<<"a">>, "post", "h2", VUndef)>>]
    /\ parameters = [c \in Controllers |-> [h \in Handlers |-> <<>>]]
    /\ contextIndices = [c \in Controllers |-> [h \in Handlers |-> NoIndex]]
    /\ \E d1 \in BOOLEAN, d2 \in BOOLEAN, d3 \in BOOLEAN,
          i1 \in {<<>>, <<"M2">>, <<"M2", "M3">>, <<"M3", "M2">>},
          i2 \in {<<>>, <<"M3">>} :
          modules = [m \in Modules |->
              CASE m = "M1" /\ d1 -> ModuleOptions(i1, <<"S1">>, <<"c1">>)
                [] m = "M2" /\ d2 -> ModuleOptions(i2, <<"S2">>, <<"c2">>)
                [] m = "M3" /\ d3 -> ModuleOptions(<<>>, <<"S3">>, <<>>)
                [] OTHER -> NoModule]
    /\ diFailing \in {{}, {"S2"}, {"c2"}}
    /\ app = NoApplication
    /\ honoUse = <<>>
    /\ appCalls = <<>>
    /\ globalPrefix = Undef
    /\ globalVersion = VUndef
    /\ routeRegistry = <<>>
    /\ hono = <<>>
    /\ instances = {}
    /\ regCalls = <<>>

\* No application exists yet and Application.create is not used
InitApplication == InitModules /\ boot = NoBoot

\* RouteRegistry.clear(): this.routes.length = 0
ClearRoutes ==
    /\ routeRegistry # <<>>
    /\ routeRegistry' = <<>>
    /\ UNCHANGED <<pathVars, registryVars, resolved, metaVars, diVars, appVars, globalPrefix,
                   globalVersion, hono, instances, diFailing, regCalls, reqVars>>

NextApplication == NewApplication \/ Register \/ ClearRoutes

\* ------------------------------------------------------------------------
\* Application.create(rootModule, options)
\* ------------------------------------------------------------------------
\* A plugin has each of the two hooks or not
Plugins == [before : BOOLEAN, after : BOOLEAN]

\* Both hook loops run before the root module is registered
createHooksFirst(pc, ok) ==
    CASE ~ok -> "failed"
      [] pc = "new" -> "before"
      [] pc = "before" -> "after"
      [] pc = "after" -> "register"
      [] pc = "register" -> "done"

\* The statements of Application.create in their order: what follows the step
\* pc, or nothing more when the step threw
create(pc, ok) ==
    CASE ~ok -> "failed"
      [] pc = "new" -> "before"
      [] pc = "before" -> "register"
      [] pc = "register" -> "after"
      [] pc = "after" -> "done"

\* const app = new Application(options), then the plugins are resolved
Create ==
    /\ boot.pc = "new"
    /\ Construct
    /\ boot' = [boot EXCEPT !.pc = create("new", TRUE), !.i = 1]

\* One turn of a loop over the plugins: the hook of the phase, if the plugin
\* has it, is called and awaited; after the last plugin create goes on
RunHook(phase) ==
    /\ boot.pc = phase
    /\ IF boot.i > Len(boot.plugins)
       THEN boot' = [boot EXCEPT !.pc = create(phase, TRUE), !.i = 1]
       ELSE IF ~boot.plugins[boot.i][phase]
       THEN boot' = [boot EXCEPT !.i = boot.i + 1]
       ELSE \E out \in {"returns", "throws"} :
               boot' = [boot EXCEPT
                           !.pc = IF out = "throws" THEN create(phase, FALSE) ELSE phase,
                           !.i = boot.i + 1,
                           !.hooks = Append(@, [phase |-> phase, plugin |-> boot.i,
                                                out |-> out, routes |-> Len(hono),
                                                registrations |-> Len(appCalls)])]
    /\ UNCHANGED <<pathVars, registryVars, resolved, metaVars, diVars, modules, app, honoUse,
                   appCalls, managerVars, reqVars>>

\* for (const plugin of plugins) await plugin.beforeModulesRegistered(app, app.hono)
BeforeModulesRegistered == RunHook("before")

\* await app.register(rootModule)
RegisterRoot ==
    /\ boot.pc = "register"
    /\ RegisterModule(boot.root)
    /\ boot' = [boot EXCEPT !.pc = create("register", appCalls'[Len(appCalls')].err = "none"),
                            !.i = 1]

\* for (const plugin of plugins) await plugin.afterModulesRegistered(app, app.hono)
AfterModulesRegistered == RunHook("after")

\* Application.create is called with a root module and up to MaxPlugins plugins
InitCreate ==
    /\ InitModules
    /\ global["middleware"] = <<>>
    /\ controllers["c2"] # Undef
    /\ modules["M3"].decorated
    /\ diFailing # {"S2"}
    /\ \E root \in {"M1", "M2"}, plugins \in SeqsUpTo(Plugins, MaxPlugins) :
          boot = [pc |-> "new", i |-> 0, root |-> root, plugins |-> plugins, hooks |-> <<>>]

NextCreate == Create \/ BeforeModulesRegistered \/ RegisterRoot \/ AfterModulesRegistered

\* ------------------------------------------------------------------------
\* Container: resolve and register
\* ------------------------------------------------------------------------
RECURSIVE resolve(_, _, _)
RECURSIVE resolveDependencies(_, _, _)

\* paramTypes.map((paramType) => this.resolve(paramType))
resolveDependencies(types, st, depth) ==
    IF types = <<>> THEN [err |-> "none", st |-> st, out |-> <<>>]
    ELSE LET first == resolve(Head(types), st, depth)
             rest == resolveDependencies(Tail(types), first.st, depth)
         IN  IF first.err # "none" THEN [err |-> first.err, st |-> first.st, out |-> <<>>]
             ELSE IF rest.err # "none" THEN rest
             ELSE [rest EXCEPT !.out = <<first.instance>> \o rest.out]

\* resolve without the look-up of the cached instance
resolveAlwaysNew(target, st, depth) ==
    IF depth >= MaxResolveDepth
    THEN [err |-> "RangeError", st |-> st, instance |-> NoInstance]
    ELSE LET deps == resolveDependencies(paramtypes[target], st, depth + 1)
             made == [origin |-> "new", class |-> target,
                      n |-> deps.st.constructed[target] + 1]
         IN  IF deps.err # "none"
             THEN [err |-> deps.err, st |-> deps.st, instance |-> NoInstance]
             ELSE IF target \in diFailing
             THEN [err |-> "ConstructorError", st |-> deps.st, instance |-> NoInstance]
             ELSE [err |-> "none",
                   st |-> [cache |-> [deps.st.cache EXCEPT ![target] = made],
                           constructed |-> [deps.st.constructed EXCEPT ![target] = @ + 1]],
                   instance |-> made]

\* Container.resolve(target); st is the instances map with the count of
\* constructions, and a recursion deeper than MaxResolveDepth exhausts the stack
resolve(target, st, depth) ==
    IF st.cache[target] # NoInstance
    THEN [err |-> "none", st |-> st, instance |-> st.cache[target]]
    ELSE IF depth >= MaxResolveDepth
    THEN [err |-> "RangeError", st |-> st, instance |-> NoInstance]
    ELSE LET deps == resolveDependencies(paramtypes[target], st, depth + 1)
             made == [origin |-> "new", class |-> target,
                      n |-> deps.st.constructed[target] + 1]
         IN  IF deps.err # "none"
             THEN [err |-> deps.err, st |-> deps.st, instance |-> NoInstance]
             ELSE IF target \in diFailing
             THEN [err |-> "ConstructorError", st |-> deps.st, instance |-> NoInstance]
             ELSE [err |-> "none",
                   st |-> [cache |-> [deps.st.cache EXCEPT ![target] = made],
                           constructed |-> [deps.st.constructed EXCEPT ![target] = @ + 1]],
                   instance |-> made]

\* container.resolve(target), called by the application
ContainerResolve ==
    /\ Len(diCalls) < MaxContainerCalls
    /\ \E target \in Classes :
          LET done == resolve(target, [cache |-> cache, constructed |-> constructed], 0)
          IN  /\ cache' = done.st.cache
              /\ constructed' = done.st.constructed
              /\ diCalls' = Append(diCalls,
                    [op |-> "resolve", target |-> target, err |-> done.err,
                     instance |-> done.instance, constructedBefore |-> constructed,
                     constructedAfter |-> done.st.constructed])
    /\ UNCHANGED <<pathVars, registryVars, resolved, metaVars, appVars, managerVars,
                   reqVars, paramtypes>>

\* Instances built by the caller
Given == {[origin |-> "given", class |-> g, n |-> 0] : g \in {"g1", "g2"}}

\* container.register(target, instance)
ContainerRegister ==
    /\ Len(diCalls) < MaxContainerCalls
    /\ \E target \in Classes, instance \in Given :
          /\ cache' = [cache EXCEPT ![target] = instance]
          /\ diCalls' = Append(diCalls,
                [op |-> "register", target |-> target, err |-> "none",
                 instance |-> instance, constructedBefore |-> constructed,
                 constructedAfter |-> constructed])
    /\ UNCHANGED <<pathVars, registryVars, resolved, metaVars, appVars, managerVars,
                   reqVars, paramtypes, constructed>>

\* Constructor parameter types: none, a chain, a class reached along two paths,
\* two classes that need each other
DependencyGraphs ==
    {[c \in Classes |-> <<>>],
     [c \in Classes |-> CASE c = "A" -> <<"B">> [] c = "B" -> <<"C">> [] OTHER -> <<>>],
     [c \in Classes |-> CASE c = "A" -> <<"B", "C">> [] c = "B" -> <<"C">> [] OTHER -> <<>>],
     [c \in Classes |-> CASE c = "A" -> <<"C", "B">> [] c = "B" -> <<"A">> [] OTHER -> <<>>]}

InitContainer ==
    /\ PathIdle
    /\ RegistryEmpty
    /\ MetaNone
    /\ RequestIdle
    /\ AppNone
    /\ globalPrefix = Undef
    /\ globalVersion = VUndef
    /\ routeRegistry = <<>>
    /\ hono = <<>>
    /\ instances = {}
    /\ regCalls = <<>>
    /\ diFailing \in {{}, {"C"}}
    /\ paramtypes \in DependencyGraphs
    /\ cache = [c \in Classes |-> NoInstance]
    /\ constructed = [c \in Classes |-> 0]
    /\ diCalls = <<>>

NextContainer == ContainerResolve \/ ContainerRegister

\* ------------------------------------------------------------------------
\* Component registration followed by resolution
\* ------------------------------------------------------------------------
\* Paths used for path-scoped registrations and as request paths
ScopePaths == {<<"/", "a">>, <<"b", "/">>}
RequestPaths == {<<"/", "a", "/", "b">>, <<"/", "b">>}

\* The number of components of a kind held by the registries
Registered(type) ==
    LET total[i \in 0..4] ==
            IF i = 0 THEN 0
            ELSE total[i - 1] +
                 (CASE i = 1 -> Len(global[type])
                    [] i = 2 -> Len(globalWithPath[type])
                    [] i = 3 -> Len(controller[type]["c1"])
                    [] i = 4 -> Len(handler[type][handlerKey("c1", "h1")]))
    IN  total[4]

\* Registrations are bounded, and one run registers components of one kind
MayRegister(type) ==
    /\ Registered(type) < MaxRegistrations
    /\ \A k \in Kinds \ {type} : Registered(k) = 0

RegisterGlobal ==
    \E type \in Kinds :
        /\ MayRegister(type)
        /\ \E x \in Instances : registerGlobal(type, x)
        /\ resolved' = NoResult
        /\ UNCHANGED <<pathVars, metaVars, diVars, appVars, managerVars, reqVars>>

RegisterGlobalWithPath ==
    \E type \in Kinds :
        /\ MayRegister(type)
        /\ \E p \in ScopePaths, x \in Instances : registerGlobalWithPath(type, p, x)
        /\ resolved' = NoResult
        /\ UNCHANGED <<pathVars, metaVars, diVars, appVars, managerVars, reqVars>>

RegisterControllerComponent ==
    \E type \in Kinds :
        /\ MayRegister(type)
        /\ \E x \in Instances : registerControllerComponent(type, "c1", x)
        /\ resolved' = NoResult
        /\ UNCHANGED <<pathVars, metaVars, diVars, appVars, managerVars, reqVars>>

RegisterHandler ==
    \E type \in Kinds :
        /\ MayRegister(type)
        /\ \E x \in Instances : registerHandler(type, "c1", "h1", x)
        /\ resolved' = NoResult
        /\ UNCHANGED <<pathVars, metaVars, diVars, appVars, managerVars, reqVars>>

GetComponents ==
    \E type \in Kinds, p \in RequestPaths, c \in Controllers :
        /\ Registered(type) > 0
        /\ resolved' = [kind |-> type, controller |-> c, handler |-> "h1", path |-> p,
                        result |-> getComponents(type, c, "h1", p)]
        /\ UNCHANGED <<pathVars, registryVars, metaVars, diVars, appVars, managerVars, reqVars>>

NextComponents ==
    \/ RegisterGlobal
    \/ RegisterGlobalWithPath
    \/ RegisterControllerComponent
    \/ RegisterHandler
    \/ GetComponents

\* ------------------------------------------------------------------------
\* Specifications
\* ------------------------------------------------------------------------
NextPath == NormalizeOnce \/ NormalizeTwice \/ BuildRoutePath

InitPathSpec == InitPath /\ RegistryEmpty /\ MetaNone /\ ManagerIdle /\ RequestIdle
                /\ AppNone /\ ContainerNone

SpecPath == InitPathSpec /\ [][NextPath]_vars

InitComponents ==
    /\ PathIdle
    /\ RegistryEmpty
    /\ controllers = [c \in Controllers |-> Undef]
    /\ controllerOptions = [c \in Controllers |-> NoOptions]
    /\ routes = [c \in Controllers |-> <<>>]
    /\ parameters = [c \in Controllers |-> [h \in Handlers |-> <<>>]]
    /\ contextIndices = [c \in Controllers |-> [h \in Handlers |-> NoIndex]]
    /\ names \in {DistinctNames, SameNames}
    /\ ManagerIdle
    /\ RequestIdle
    /\ AppNone
    /\ ContainerNone

SpecComponents == InitComponents /\ [][NextComponents]_vars

SpecRegistration == InitRegistration /\ [][NextRegistration]_vars

SpecRequest == InitRequest /\ [][NextRequest]_vars

SpecApplication == InitApplication /\ [][NextApplication]_vars

SpecContainer == InitContainer /\ [][NextContainer]_vars

SpecCreate == InitCreate /\ [][NextCreate]_vars

\* ------------------------------------------------------------------------
\* Claims
\* ------------------------------------------------------------------------
IsPrefixOf(s, t) == Len(s) <= Len(t) /\ SubSeq(t, 1, Len(s)) = s

\* The result of the last getComponents call for guard, pipe or filter is the
\* global components, then the path-scoped entries whose normalized path is a
\* prefix of the request path, then the controller's, then the handler's
ResolvedIsConcatenation ==
    resolved.kind \in {"guard", "pipe", "filter"} =>
        LET k == resolved.kind
            Match(e) == startsWith(resolved.path, normalizePath(e.path))
            sel == SelectSeq(globalWithPath[k], Match)
        IN  resolved.result =
                global[k] \o [i \in 1..Len(sel) |-> sel[i].component]
                \o controller[k][resolved.controller]
                \o handler[k][<<ClassName(resolved.controller), ":", resolved.handler>>]

\* A registration leaves the entries already in a bucket where they are and adds
\* at the end
RegistrationAppends ==
    \A k \in Kinds :
        /\ IsPrefixOf(global[k], global'[k])
        /\ IsPrefixOf(globalWithPath[k], globalWithPath'[k])
        /\ \A c \in Controllers : IsPrefixOf(controller[k][c], controller'[k][c])
        /\ \A key \in HandlerKeys : IsPrefixOf(handler[k][key], handler'[k][key])

\* C2: for guard, pipe and filter, getComponents returns the concatenation of the
\* global, matching path-scoped, controller-scope and handler-scope components in
\* that order, each bucket in its registration order.
GetComponentsOrder == []ResolvedIsConcatenation /\ [][RegistrationAppends]_vars

\* One global guard, one controller guard and one handler guard resolve to the three
\* in that order
GetComponentsOrderWitness ==
    /\ resolved.kind = "guard"
    /\ global["guard"] = <<"I1">>
    /\ controller["guard"]["c1"] = <<"I2">>
    /\ handler["guard"][handlerKey("c1", "h1")] = <<"I3">>
    /\ resolved.result = <<"I1", "I2", "I3">>

\* The catalog indexes of the entries a registerController call produced for a
\* handler, in catalog order
IndexesOf(call, h) ==
    SelectSeq([i \in 1..(call.to - call.from) |-> call.from + i],
              LAMBDA i : routeRegistry[i].handler = h)

\* The version a route is to be registered under: its own if set (null included),
\* else the controller's if set (null included), else the global one
ExpectedVersion(c, route) ==
    IF route.version.t # "undefined" THEN route.version
    ELSE IF controllerOptions[c].version.t # "undefined" THEN controllerOptions[c].version
    ELSE globalVersion

\* The version segments of the entries a version stands for
ExpectedSegments(version) ==
    CASE version.t \in {"undefined", "null"} -> << <<>> >>
      [] version.t = "neutral" -> << <<>>, <<"/", ":version{v[0-9]+}">> >>
      [] version.t = "number" -> << <<"/", "v", ToString(version.v[1])>> >>
      [] version.t = "array" ->
            [i \in 1..Len(version.v) |-> <<"/", "v", ToString(version.v[i])>>]

NeutralTwoEntries ==
    \A k \in 1..Len(regCalls) :
        \A r \in 1..Len(routes[regCalls[k].controller]) :
            LET c == regCalls[k].controller
                route == routes[c][r]
                idx == IndexesOf(regCalls[k], route.handlerName)
            IN  (regCalls[k].err = "none" /\ ExpectedVersion(c, route).t = "neutral") =>
                    /\ Len(idx) = 2
                    /\ LET e1 == routeRegistry[idx[1]]
                           e2 == routeRegistry[idx[2]]
                       IN  /\ e1.version = <<>>
                           /\ e2.version = <<"/", ":version{v[0-9]+}">>
                           /\ [e1 EXCEPT !.version = <<>>, !.fullPath = <<>>]
                              = [e2 EXCEPT !.version = <<>>, !.fullPath = <<>>]
                           /\ e1.fullPath = normalizePath(e1.prefix \o e1.route \o e1.path)
                           /\ e2.fullPath = normalizePath(e1.prefix \o e2.version
                                                          \o e1.route \o e1.path)
                           /\ hono[idx[1]].wrapper = hono[idx[2]].wrapper
                           /\ hono[idx[1]].method = hono[idx[2]].method
                           /\ hono[idx[1]].path = e1.fullPath
                           /\ hono[idx[2]].path = e2.fullPath

\* A controller-level neutral version: /a/b and /:version{v[0-9]+}/a/b
NeutralTwoEntriesWitness ==
    /\ controllerOptions["c1"].version = VERSION_NEUTRAL
    /\ routes["c1"][1].version = VUndef
    /\ \E k \in 1..Len(regCalls) :
          /\ regCalls[k].controller = "c1" /\ regCalls[k].err = "none"
          /\ LET idx == IndexesOf(regCalls[k], "h1")
             IN  /\ Len(idx) = 2
                 /\ routeRegistry[idx[1]].fullPath = <<"/", "a", "/", "b">>
                 /\ routeRegistry[idx[2]].fullPath =
                        <<"/", ":version{v[0-9]+}", "/", "a", "/", "b">>

\* C9: a route whose effective version is a list of integers produces one
\* RouteInfo entry per list element, in list order, each with its own /vN segment
\* and full path; repeated elements produce repeated entries.
VersionListFanOut ==
    \A k \in 1..Len(regCalls) :
        \A r \in 1..Len(routes[regCalls[k].controller]) :
            LET c == regCalls[k].controller
                route == routes[c][r]
                version == ExpectedVersion(c, route)
                idx == IndexesOf(regCalls[k], route.handlerName)
            IN  (regCalls[k].err = "none" /\ version.t = "array") =>
                    /\ Len(idx) = Len(version.v)
                    /\ \A i \in 1..Len(idx) :
                          LET e == routeRegistry[idx[i]]
                          IN  /\ e.version = <<"/", "v", ToString(version.v[i])>>
                              /\ e.fullPath = normalizePath(e.prefix \o e.version
                                                            \o e.route \o e.path)
                              /\ hono[idx[i]].path = e.fullPath

\* The list [1, 1] gives two entries with the same full path, and the list [1, 2]
\* of another run gives /v1 then /v2
VersionListFanOutWitness ==
    /\ routes["c1"][1].version = VArr(<<1, 1>>)
    /\ globalPrefix = Undef /\ controllerOptions["c1"].prefix = Undef
    /\ \E k \in 1..Len(regCalls) :
          /\ regCalls[k].controller = "c1" /\ regCalls[k].err = "none"
          /\ LET idx == IndexesOf(regCalls[k], "h1")
             IN  /\ Len(idx) = 2
                 /\ routeRegistry[idx[1]].fullPath = <<"/", "v", "1", "/", "a", "/", "b">>
                 /\ routeRegistry[idx[2]].fullPath = routeRegistry[idx[1]].fullPath

\* C10: normalize is idempotent: for every path string p,
\* normalize(normalize(p)) equals normalize(p).
NormalizeIdempotent == npPc = "twice" => npTwice = npOnce

\* ------------------------------------------------------------------------
\* The request pipeline
\* ------------------------------------------------------------------------
CatchEntries == {k \in 1..Len(log) : log[k].op = "catch"}
ScopeRank(scope) == CASE scope = "handler" -> 1 [] scope = "controller" -> 2
                      [] scope = "global" -> 3 [] OTHER -> 0
RequestController == hono[req.route].wrapper.controllerClass
RequestHandler == hono[req.route].wrapper.handlerName
HasFilters(scope) ==
    scopeFilters(scope, RequestController, RequestHandler, req.path) # <<>>
Threw == <<"#throws">>

\* C3: filters are consulted scope by scope, handler scope first, then
\* controller, then global; the first response a filter returns is the
\* result of the request and no filter is invoked after it
FilterScopePrecedence ==
    /\ \A k \in CatchEntries, m \in CatchEntries :
          k < m => ScopeRank(log[k].scope) <= ScopeRank(log[m].scope)
    /\ \A k \in CatchEntries :
          /\ \E n \in 1..Len(scopeFilters(log[k].scope, RequestController,
                                          RequestHandler, req.path)) :
                scopeFilters(log[k].scope, RequestController, RequestHandler,
                             req.path)[n] = log[k].who
          /\ (\A m \in CatchEntries : m >= k) =>
                log[k].scope = (IF HasFilters("handler") THEN "handler"
                                ELSE IF HasFilters("controller") THEN "controller"
                                ELSE "global")
          /\ log[k].out = AResponse =>
                /\ k = Len(log)
                /\ req.pc = "done"
                /\ req.result = [kind |-> "filter", value |-> AResponse,
                                 by |-> log[k].who, status |-> 0]

\* A handler-level filter answered while controller-level and global filters
\* were registered
FilterScopePrecedenceWitness ==
    /\ req.pc = "done"
    /\ HasFilters("controller") /\ getGlobal("filter") # <<>>
    /\ log # <<>>
    /\ log[Len(log)].op = "catch" /\ log[Len(log)].scope = "handler"
    /\ log[Len(log)].out = AResponse
    /\ req.result.by = log[Len(log)].who

\* C4: when a filter's catch throws, the next filter of the chain is consulted
\* for the original exception and the request ends with a response, from a
\* filter or from the default formatter
FilterThrowStillResponds ==
    \A k \in CatchEntries :
        log[k].out = Threw =>
            /\ k < Len(log) => log[k + 1].op = "catch" /\ log[k + 1].exc = log[k].exc
            /\ req.exception = log[k].exc
            /\ req.pc = "done" =>
                  \/ req.result.kind = "filter"
                  \/ req.result = defaultResponse(log[k].exc)

\* C5: guards are invoked one after the other in resolved order, each only
\* after the one before it answered true; after a falsy answer nothing but
\* Exception Dispatch, given an HTTP 403 'Forbidden' error, runs
GuardsShortCircuit ==
    /\ req.guards # <<>> =>
          req.guards = getComponents("guard", RequestController, RequestHandler, req.path)
    /\ \A k \in 1..Len(log) :
          /\ log[k].op = "canActivate" =>
                /\ k <= Len(req.guards) /\ log[k].who = req.guards[k]
                /\ \A m \in 1..(k - 1) : log[m].op = "canActivate" /\ log[m].out = "true"
          /\ log[k].op \in {"factory", "transform", "handler"} =>
                \A g \in 1..Len(req.guards) :
                    log[g].op = "canActivate" /\ log[g].out = "true"
          /\ (log[k].op = "canActivate" /\ log[k].out = "false") =>
                /\ req.pc \in {"filters", "done"}
                /\ req.exception = [type |-> "HTTPException", status |-> 403,
                                    message |-> "Forbidden", origin |-> "wrapper"]
                /\ \A m \in (k + 1)..Len(log) :
                      log[m].op = "catch" /\ log[m].exc = req.exception

\* The second of three guards refused: the third one was never asked
GuardsShortCircuitWitness ==
    /\ req.pc = "done"
    /\ Len(req.guards) = 3
    /\ Len(log) >= 2
    /\ log[1].op = "canActivate" /\ log[1].out = "true"
    /\ log[2].op = "canActivate" /\ log[2].out = "false"
    /\ \A m \in 1..Len(log) : log[m].who = req.guards[3] => log[m].op # "canActivate"
    /\ hono[req.route].wrapper.handlerParams # <<>>

DeclaresContext(c, h) ==
    \E n \in 1..Len(parameters[c][h]) : parameters[c][h][n].name = "context"

HandlerReturned ==
    /\ log # <<>>
    /\ log[Len(log)].op = "handler"
    /\ log[Len(log)].out \in HandlerReturns

\* C6: without a raw-context parameter the response follows the handler's
\* return value: null and undefined give the JSON body null, a string gives a
\* text body with that string, anything else gives a JSON body of the value
AutomaticSerialization ==
    \A k \in 1..Len(log) :
        (/\ log[k].op = "handler" /\ log[k].out \in HandlerReturns
         /\ ~DeclaresContext(RequestController, RequestHandler)) =>
            /\ req.pc = "done"
            /\ req.result.by = "handler"
            /\ log[k].out \in {Undef, Null} =>
                  req.result.kind = "json" /\ req.result.value = Null
            /\ log[k].out \in {<<>>, <<"o", "k">>} =>
                  req.result.kind = "text" /\ req.result.value = log[k].out
            /\ log[k].out \in {AnObject, AResponse} =>
                  req.result.kind = "json" /\ req.result.value = log[k].out

\* A handler whose only parameter is the body returned the string 'ok'
AutomaticSerializationWitness ==
    /\ HandlerReturned
    /\ ~DeclaresContext(RequestController, RequestHandler)
    /\ parameters[RequestController][RequestHandler] # <<>>
    /\ log[Len(log)].out = <<"o", "k">>
    /\ req.result.kind = "text"

\* C7: with a raw-context parameter the closure returns what the handler
\* returned, unwrapped, whatever the value is
ContextHandlerPassThrough ==
    \A k \in 1..Len(log) :
        (/\ log[k].op = "handler" /\ log[k].out \in HandlerReturns
         /\ DeclaresContext(RequestController, RequestHandler)) =>
            /\ req.pc = "done"
            /\ req.result = [kind |-> "raw", value |-> log[k].out, by |-> "handler",
                             status |-> 0]

\* A handler taking the context as its first parameter returned null
ContextHandlerPassThroughWitness ==
    /\ HandlerReturned
    /\ DeclaresContext(RequestController, RequestHandler)
    /\ contextIndices[RequestController][RequestHandler].index = 0
    /\ log[Len(log)].out = Null
    /\ req.result.kind = "raw" /\ req.result.value = Null

CleanPath(path) ==
    /\ path # <<>>
    /\ path[1] = "/"
    /\ \A k \in 1..(Len(path) - 1) : ~(path[k] = "/" /\ path[k + 1] = "/")
    /\ path[Len(path)] = "/" => path = <<"/">>

GlobalCatches == {k \in CatchEntries : log[k].scope = "global"}

\* C13: a path-scoped global filter registered with prefix P is among the
\* global filters of Exception Dispatch exactly when the request path starts,
\* as a string, with normalize(P): it is never invoked for another path, and
\* it is invoked when the filters before it leave the exception unhandled
PathScopedFilterMatch ==
    \A n \in 1..Len(globalWithPath["filter"]) :
        LET entry == globalWithPath["filter"][n]
            matches == IsPrefixOf(normalizePath(entry.path), req.path)
            invoked == \E k \in GlobalCatches : log[k].who = entry.component
        IN  /\ invoked => matches
            /\ (req.pc = "filters" /\ ScopeRank(ScopeOrder[req.scope]) = 3) =>
                  (matches <=> \E m \in 1..Len(req.filters) :
                                   req.filters[m] = entry.component)
            /\ (/\ req.pc = "done" /\ req.result.by = "default"
                /\ \A k \in CatchEntries : log[k].out \in {Undef, Threw}
                /\ matches) => invoked

\* The filter registered with '/a/b' was invoked for a request to '/a/bb', the
\* one registered with 'b' was not
PathScopedFilterMatchWitness ==
    /\ req.pc = "done"
    /\ req.path = <<"/", "a", "/", "b", "b">>
    /\ \E k \in GlobalCatches : log[k].who = "I3"
    /\ \E k \in GlobalCatches : log[k].who = "I2"
    /\ \A k \in GlobalCatches : log[k].who # "I1"
    /\ \E n \in 1..Len(globalWithPath["filter"]) :
          globalWithPath["filter"][n] = Scoped(<<"/", "a", "/", "b">>, "I3")

\* ------------------------------------------------------------------------
\* Controller prefix
\* ------------------------------------------------------------------------
\* C14: the routes of a controller whose options set prefix to null are
\* registered with an empty prefix segment, whatever the global prefix is; a
\* controller with no prefix option is registered under the global prefix
NullPrefixOptsOut ==
    \A k \in 1..Len(regCalls) :
        \A i \in (regCalls[k].from + 1)..regCalls[k].to :
            LET c == regCalls[k].controller
            IN  /\ controllerOptions[c].prefix = Null => routeRegistry[i].prefix = <<>>
                /\ controllerOptions[c].prefix = Undef =>
                      routeRegistry[i].prefix =
                          (IF globalPrefix = Undef THEN <<>> ELSE globalPrefix)

\* ------------------------------------------------------------------------
\* The default error response
\* ------------------------------------------------------------------------
\* C15: when no filter answers, the HTTP status of the response of Exception
\* Dispatch is the status the default formatter computed: the status of an
\* HTTP exception, the status field of an error that has one, 500 otherwise
DefaultResponseStatus ==
    (req.pc = "done" /\ req.result.by = "default") =>
        req.result.status =
            (IF req.exception.type = "HTTPException" THEN req.exception.status
             ELSE IF req.exception.status # 0 THEN req.exception.status
             ELSE 500)

\* ------------------------------------------------------------------------
\* Modules
\* ------------------------------------------------------------------------
Imported(S) ==
    S \cup {modules[m].imports[n] : <<m, n>> \in
               {<<x, y>> \in S \X (1..2) : y <= Len(modules[x].imports)}}

\* The modules a registration of m walks through: m and the imports of imports
ModuleTree(m) == Imported(Imported(Imported({m})))

SeqRange(seq) == {seq[n] : n \in 1..Len(seq)}

\* C16: registering a class @Module was never applied to fails at once: the
\* container resolved nothing, no controller was registered; a registration
\* that reaches such a class through imports fails too, with no controller
\* registered and none of the registered module's own services resolved
UndecoratedModuleFails ==
    \A k \in 1..Len(appCalls) :
        LET call == appCalls[k]
        IN  /\ ~modules[call.module].decorated =>
                  /\ call.err = "NotDecorated" /\ call.culprit = call.module
                  /\ call.instancesAfter = call.instancesBefore
                  /\ call.to = call.from
                  /\ call.routesAfter = call.routesBefore
            /\ (\E u \in ModuleTree(call.module) : ~modules[u].decorated) =>
                  /\ call.err # "none"
                  /\ diFailing = {} => call.err = "NotDecorated"
                  /\ call.err = "NotDecorated" => ~modules[call.culprit].decorated
                  /\ call.to = call.from
                  /\ call.routesAfter = call.routesBefore
                  /\ SeqRange(modules[call.module].services) \cap call.instancesAfter
                        \subseteq call.instancesBefore

\* M1 imports M2, M2 imports M3, and M3 is not a module
UndecoratedModuleFailsWitness ==
    /\ Len(appCalls) = 1
    /\ appCalls[1].module = "M1"
    /\ modules["M1"].decorated /\ modules["M2"].decorated /\ ~modules["M3"].decorated
    /\ modules["M1"].imports = <<"M2">> /\ modules["M2"].imports = <<"M3">>
    /\ appCalls[1].err = "NotDecorated" /\ appCalls[1].culprit = "M3"
    /\ routeRegistry = <<>>

\* ------------------------------------------------------------------------
\* Controllers without @Controller
\* ------------------------------------------------------------------------
\* C17: registerController of a class @Controller was never applied to ends
\* with an error
UndecoratedControllerFails ==
    \A k \in 1..Len(regCalls) :
        controllers[regCalls[k].controller] = Undef => regCalls[k].err # "none"

\* ------------------------------------------------------------------------
\* Global middleware
\* ------------------------------------------------------------------------
\* The unscoped middleware among the items of options.components.middleware
UnscopedOf(items) == SelectSeq(items, LAMBDA item : item.path = Undef)

\* C18: every unscoped middleware of the application options is registered with
\* hono.use('*', ...), in the order of the options, before any route
GlobalMiddlewareOnEntryPoint ==
    app.state = "created" =>
        LET given == UnscopedOf(app.middleware)
            used == SelectSeq(honoUse, LAMBDA u :
                        \E n \in 1..Len(given) : given[n].component = u.middleware)
        IN  /\ Len(used) = Len(given)
            /\ \A n \in 1..Len(given) :
                  /\ used[n].middleware = given[n].component
                  /\ used[n].path = "*"
                  /\ used[n].routesBefore = 0

\* ------------------------------------------------------------------------
\* The route catalog
\* ------------------------------------------------------------------------
\* Every step but clear keeps the catalog as it is and adds, at its end, one
\* entry per route given to the router, in the same order
CatalogAppends ==
    \/ ClearRoutes
    \/ /\ IsPrefixOf(routeRegistry, routeRegistry')
       /\ app' = app =>
             /\ Len(routeRegistry') - Len(routeRegistry) = Len(hono') - Len(hono)
             /\ \A i \in 1..(Len(hono') - Len(hono)) :
                   routeRegistry'[Len(routeRegistry) + i].fullPath = hono'[Len(hono) + i].path

\* C19: the route catalog only grows at its end, one entry per registerRoute
\* in registration order, getRoutes returns it as it is, and only clear
\* empties it
CatalogAppendOnly ==
    /\ [][CatalogAppends]_vars
    /\ [][ClearRoutes => getRoutes' = <<>>]_vars
    /\ [](getRoutes = routeRegistry)

\* Routes were registered, the catalog was cleared, and more routes were
\* registered after that
CatalogAppendOnlyWitness ==
    /\ routeRegistry # <<>>
    /\ Len(hono) > Len(routeRegistry)
    /\ Len(appCalls) >= 2
    /\ appCalls[Len(appCalls)].from = 0
    /\ appCalls[Len(appCalls)].to = Len(routeRegistry)

\* ------------------------------------------------------------------------
\* The container
\* ------------------------------------------------------------------------
RegisteredBetween(target, i, j) ==
    \E m \in (i + 1)..(j - 1) : diCalls[m].op = "register" /\ diCalls[m].target = target

\* C20: the container holds one instance per class: two resolve calls of a
\* class with no register of it in between return the same instance, resolve
\* constructs a class at most once, and after register(C, i) resolve(C)
\* returns i and constructs nothing of C
ContainerSingleton ==
    /\ \A c \in Classes : constructed[c] <= 1
    /\ \A i \in 1..Len(diCalls), j \in 1..Len(diCalls) :
          (/\ i < j
           /\ diCalls[i].target = diCalls[j].target
           /\ diCalls[j].op = "resolve"
           /\ ~RegisteredBetween(diCalls[i].target, i, j)) =>
              /\ (diCalls[i].op = "resolve" /\ diCalls[i].err = "none"
                  /\ diCalls[j].err = "none") =>
                    diCalls[j].instance = diCalls[i].instance
              /\ diCalls[i].op = "register" =>
                    /\ diCalls[j].err = "none"
                    /\ diCalls[j].instance = diCalls[i].instance
                    /\ diCalls[j].constructedAfter = diCalls[j].constructedBefore

\* A was resolved with its dependencies, replaced by register, and resolved again
ContainerSingletonWitness ==
    /\ Len(diCalls) = 3
    /\ paramtypes["A"] = <<"B", "C">>
    /\ diCalls[1].op = "resolve" /\ diCalls[1].target = "A" /\ diCalls[1].err = "none"
    /\ constructed = [c \in Classes |-> 1]
    /\ diCalls[2].op = "register" /\ diCalls[2].target = "A"
    /\ diCalls[3].op = "resolve" /\ diCalls[3].target = "A"
    /\ diCalls[3].instance = diCalls[2].instance

\* Classes that c needs, directly or through other classes
RECURSIVE Needs(_, _)
Needs(c, n) ==
    IF n = 0 THEN {}
    ELSE LET direct == {paramtypes[c][k] : k \in 1..Len(paramtypes[c])}
         IN  direct \cup UNION {Needs(d, n - 1) : d \in direct}

OnCycle(c) == c \in Needs(c, Cardinality(Classes))

\* C21: resolving a class whose dependencies form a cycle ends with the error
\* 'Circular dependency detected' and constructs no class of the cycle, and a
\* class reached along two paths without a cycle is constructed once and
\* resolves without error
CircularDependencyDetected ==
    \A i \in 1..Len(diCalls) :
       diCalls[i].op = "resolve" =>
          /\ diCalls[i].err \in {"none", "ConstructorError", "Circular dependency detected"}
          /\ diCalls[i].err = "Circular dependency detected" =>
                \A c \in Classes :
                   OnCycle(c) => diCalls[i].constructedAfter[c] = diCalls[i].constructedBefore[c]
          /\ ((\A c \in Classes : ~OnCycle(c)) /\ diFailing = {}) =>
                /\ diCalls[i].err = "none"
                /\ \A c \in Classes : diCalls[i].constructedAfter[c] <= 1

\* ------------------------------------------------------------------------
\* The arguments of the handler
\* ------------------------------------------------------------------------
RequestParams == hono[req.route].wrapper.handlerParams
RequestPipes == hono[req.route].wrapper.handlerPipes
HandlerCalls == {k \in 1..Len(log) : log[k].op = "handler"}

\* What the chain of pipes makes of the value of the factory of a parameter
FinalValue(param, pipes) ==
    [v |-> <<param.name, param.data>> \o pipes, promise |-> FALSE, rejected |-> FALSE]

\* C22: the handler receives the final value of each decorated parameter at
\* the index recorded for that parameter, in whatever order the decorators
\* were recorded, and undefined at every position without a decorator
ArgumentsByIndex ==
    \A k \in HandlerCalls :
       \A pos \in 1..Len(log[k].args) :
          LET at == {n \in 1..Len(RequestParams) : RequestParams[n].index = pos - 1}
          IN  /\ at = {} => log[k].args[pos] = UndefinedValue
              /\ \A n \in at : log[k].args[pos] = FinalValue(RequestParams[n], RequestPipes)

\* The handler was called with two parameters recorded in the reverse of their
\* positions, and another one with undecorated positions before its parameter
ArgumentsByIndexWitness ==
    /\ HandlerCalls # {}
    /\ \/ /\ Len(RequestParams) = 2
          /\ RequestParams[1].index = 1 /\ RequestParams[2].index = 0
          /\ log[Len(log)].op = "handler"
          /\ log[Len(log)].args[1].v = <<"param", "id">>
       \/ /\ Len(RequestParams) = 1 /\ RequestParams[1].index = 2
          /\ log[Len(log)].op = "handler"
          /\ log[Len(log)].args[1] = UndefinedValue
          /\ log[Len(log)].args[3].v[1] = "param"

\* ------------------------------------------------------------------------
\* The chain of pipes
\* ------------------------------------------------------------------------
Transforms == {k \in 1..Len(log) : log[k].op = "transform"}
Factories == {k \in 1..Len(log) : log[k].op = "factory"}

\* The parameter a log entry belongs to: the number of factory calls up to it
ParamOf(k) == Cardinality({f \in Factories : f <= k})

\* The place of a transform in the chain of its parameter
PlaceOf(k) == Cardinality({t \in Transforms : t <= k /\ ParamOf(t) = ParamOf(k)})

\* C23: for each parameter the pipes of the resolved chain run one after the
\* other in resolver order, the first on the raw value of the factory and each
\* later one on the output of the one before it, and the handler receives the
\* output of the last pipe, or the raw value when there is no pipe
PipesChained ==
    /\ req.pc # "idle" =>
          RequestPipes = getComponents("pipe", RequestController, RequestHandler, req.path)
    /\ \A k \in Transforms :
          LET param == RequestParams[ParamOf(k)]
              place == PlaceOf(k)
          IN  /\ place <= Len(RequestPipes)
              /\ log[k].who = RequestPipes[place]
              /\ log[k - 1].op = IF place = 1 THEN "factory" ELSE "transform"
              /\ place = 1 => log[k].val.v = <<param.name, param.data>>
              /\ place > 1 => /\ log[k - 1].out = "returns"
                              /\ log[k].val = transform(log[k - 1].val, log[k - 1].who)
    /\ \A k \in HandlerCalls :
          /\ Cardinality(Factories) = Len(RequestParams)
          /\ Cardinality(Transforms) = Len(RequestParams) * Len(RequestPipes)
          /\ \A n \in 1..Len(RequestParams) :
                log[k].args[RequestParams[n].index + 1].v =
                    <<RequestParams[n].name, RequestParams[n].data>> \o RequestPipes
          /\ \A t \in Transforms : log[t].out = "returns"

\* Two parameters went through a chain of two pipes and the handler was called
PipesChainedWitness ==
    /\ HandlerCalls # {}
    /\ Len(RequestPipes) = 2
    /\ Len(RequestParams) = 2
    /\ Cardinality(Transforms) = 4
    /\ \E k \in Transforms : log[k].val.v = <<"param", "id", RequestPipes[1]>>

\* ------------------------------------------------------------------------
\* Errors thrown by guards and pipes
\* ------------------------------------------------------------------------
\* C24: when a guard or the transform of a pipe throws, the handler is not
\* invoked, no later guard, factory or pipe runs, and the error thrown is the
\* exception given to Exception Dispatch
ThrowAbortsPipeline ==
    \A k \in 1..Len(log) :
       (log[k].op \in {"canActivate", "transform"} /\ log[k].out = "throws") =>
          /\ req.pc \in {"filters", "done"}
          /\ req.exception = ErrorOf("Error", log[k].who)
          /\ \A m \in (k + 1)..Len(log) :
                log[m].op = "catch" /\ log[m].exc = ErrorOf("Error", log[k].who)
          /\ req.pc = "done" => req.result.by # "handler"

\* The first pipe threw for the first of two parameters and a filter caught it
ThrowAbortsPipelineWitness ==
    /\ req.pc = "done"
    /\ Len(RequestParams) = 2
    /\ Cardinality(Transforms) = 1
    /\ \E k \in Transforms : log[k].out = "throws" /\ k < Len(log)
    /\ \E g \in 1..Len(log) : log[g].op = "canActivate"

\* ------------------------------------------------------------------------
\* The closure and Exception Dispatch
\* ------------------------------------------------------------------------
Raised(k) ==
    \/ log[k].op \in {"canActivate", "transform"} /\ log[k].out = "throws"
    \/ /\ log[k].op = "factory" /\ log[k].out = "throws"
       /\ RequestParams[ParamOf(k)].factory = "sync"
    \/ log[k].op = "handler" /\ log[k].out \in {<<"#throws">>, <<"#throws", "404">>}

\* C25: the closure never rejects: whatever a guard, a factory, a pipe or the
\* handler raises is given to Exception Dispatch, and Exception Dispatch ends
\* with a response, from a filter or from the default formatter, whichever
\* filters are registered
ClosureNeverRejects ==
    /\ \A k \in 1..Len(log) : Raised(k) => req.exception # NoException
    /\ req.pc = "done" =>
          /\ req.result.kind # "rejected"
          /\ req.exception # NoException =>
                \/ req.result.kind = "filter"
                \/ req.result = defaultResponse(req.exception)

\* ------------------------------------------------------------------------
\* Path-scoped global guards
\* ------------------------------------------------------------------------
ScopedGuards == getGlobalWithPath("guard")
AskedGuards == {log[k].who : k \in {n \in 1..Len(log) : log[n].op = "canActivate"}}

\* C26: a guard registered globally for the path prefix P is among the guards
\* of every request whose path starts with normalize(P) and is the first one
\* asked when no other guard is registered, and a request whose path does not
\* start with normalize(P) is served without it and without an error caused
\* by it
PathScopedGuardApplies ==
    req.pc # "idle" =>
       \A n \in 1..Len(ScopedGuards) :
          LET entry == ScopedGuards[n]
              inside == startsWith(req.path, normalizePath(entry.path))
          IN  /\ req.exception.origin # "getHandlerGuards"
              /\ inside =>
                    \E g \in 1..Len(req.guards) : req.guards[g] = entry.component
              /\ (inside /\ log # <<>>) => log[1].op = "canActivate"
              /\ ~inside => entry.component \notin AskedGuards

\* ------------------------------------------------------------------------
\* What a pipe is given
\* ------------------------------------------------------------------------
\* C27: the first pipe of a parameter whose factory returns a promise is
\* given the value the promise resolves to, never the promise
PipesSeeResolvedValue ==
    \A k \in Transforms : ~log[k].val.promise

\* C28: the metadata given to a pipe has for type the source the parameter
\* was declared with (body, param, ...), for metatype its declared type and
\* for data its sub-key
PipeMetadataComplete ==
    \A k \in Transforms :
       LET param == RequestParams[ParamOf(k)]
       IN  log[k].args = <<[type |-> param.name, metatype |-> param.metatype,
                            data |-> param.data]>>

\* ------------------------------------------------------------------------
\* The prefix of a route definition
\* ------------------------------------------------------------------------
\* The route definitions of a controller that name a handler
DefinitionsOf(c, h) == {n \in 1..Len(routes[c]) : routes[c][n].handlerName = h}

\* C29: a route definition with a prefix of its own, a string or null, is
\* registered under that prefix (none for null) and not under the prefix of
\* its controller or the global one
RoutePrefixOverrides ==
    \A k \in 1..Len(regCalls) :
        \A i \in (regCalls[k].from + 1)..regCalls[k].to :
            \A n \in DefinitionsOf(regCalls[k].controller, routeRegistry[i].handler) :
                LET route == routes[regCalls[k].controller][n]
                IN  /\ route.prefix = Null => routeRegistry[i].prefix = <<>>
                    /\ ~isNil(route.prefix) =>
                          routeRegistry[i].prefix = RouteManager_normalizePath(route.prefix)

\* ------------------------------------------------------------------------
\* Repeated component references
\* ------------------------------------------------------------------------
\* C30: the list resolved for a handler holds each component reference at
\* most once, also when the reference was registered twice in a scope or in
\* more than one scope
ResolvedWithoutDuplicates ==
    resolved # NoResult =>
       \A i \in 1..Len(resolved.result), j \in 1..Len(resolved.result) :
          resolved.result[i] = resolved.result[j] => i = j

\* ------------------------------------------------------------------------
\* Handler scope and class identity
\* ------------------------------------------------------------------------
\* What the resolver returns for a handler nothing was registered for at
\* handler scope
WithoutHandlerScope(type, c, routePath) ==
    IF type = "middleware" THEN getController(type, c)
    ELSE getGlobal(type) \o matchingPath(getGlobalWithPath(type), routePath)
         \o getController(type, c)

\* C31: a component registered at handler scope for handler h of a controller
\* class is resolved for that handler of that class only, never for a handler
\* of another controller class, whatever the names of the classes are
HandlerScopeByClass ==
    (resolved # NoResult /\ resolved.controller # "c1") =>
        resolved.result =
            WithoutHandlerScope(resolved.kind, resolved.controller, resolved.path)

\* ------------------------------------------------------------------------
\* The middleware registered with a route
\* ------------------------------------------------------------------------
\* C32: the middleware list given to the router with a route is the
\* controller-scope middleware followed by the handler-scope middleware, each
\* in registration order, with no global or path-scoped global middleware
RouteMiddlewareScopes ==
    \A n \in 1..Len(hono) :
       LET w == hono[n].wrapper
       IN  hono[n].middleware =
              getController("middleware", w.controllerClass)
              \o getHandler("middleware", handlerKey(w.controllerClass, w.handlerName))

\* A route was registered with controller and handler middleware while global
\* and path-scoped global middleware are registered too
RouteMiddlewareScopesWitness ==
    /\ getGlobal("middleware") # <<>>
    /\ getGlobalWithPath("middleware") # <<>>
    /\ \E n \in 1..Len(hono) : hono[n].middleware = <<"K1", "I1", "I2">>
    /\ \E n \in 1..Len(hono) : hono[n].middleware = <<>>

\* ------------------------------------------------------------------------
\* The controller and the handler in the request context
\* ------------------------------------------------------------------------
Refused(k) == log[k].op = "canActivate" /\ log[k].out = "false"

\* C33: the controller class and the handler name are in the request context
\* before the first guard runs, so that whatever a guard, a pipe or the
\* handler raises goes to the handler-scope filters of the route first, to its
\* controller-scope filters when it has no handler-scope ones, and to global
\* filters only after them
ContextBeforeGuards ==
    /\ req.pc # "idle" => req.ctxSet
    /\ \A k \in 1..Len(log) :
          ((Raised(k) \/ Refused(k)) /\ log[k].op # "factory" /\ k < Len(log)) =>
              /\ log[k + 1].op = "catch"
              /\ HasFilters("handler") => log[k + 1].scope = "handler"
              /\ (~HasFilters("handler") /\ HasFilters("controller")) =>
                    log[k + 1].scope = "controller"
    /\ \A k \in CatchEntries :
          log[k].scope = "global" =>
              \A scope \in {"handler", "controller"} :
                  HasFilters(scope) => \E m \in 1..(k - 1) : log[m].scope = scope

\* A pipe threw on a route with filters at the three scopes; the handler-scope
\* and controller-scope filters passed and a global filter was consulted
ContextBeforeGuardsWitness ==
    /\ req.pc = "done"
    /\ HasFilters("handler") /\ HasFilters("controller")
    /\ \E k \in Transforms : log[k].out = "throws" /\ log[k + 1].scope = "handler"
    /\ \E k \in CatchEntries : log[k].scope = "controller"
    /\ \E k \in CatchEntries : log[k].scope = "global"

\* ------------------------------------------------------------------------
\* A controller the container cannot build
\* ------------------------------------------------------------------------
\* C34: when the container fails to resolve a controller, registerController
\* ends with that error, the catalog and the router hold no entry of that
\* controller, and the entries of the controllers registered before it are
\* the ones their registration produced
UnresolvedControllerRegistersNothing ==
    \A k \in 1..Len(regCalls) :
       regCalls[k].controller \in diFailing =>
          /\ regCalls[k].err = "DIError"
          /\ regCalls[k].to = regCalls[k].from
          /\ \A i \in 1..Len(routeRegistry) :
                routeRegistry[i].controller # ClassName(regCalls[k].controller)
          /\ \A n \in 1..Len(hono) :
                hono[n].wrapper.controllerClass # regCalls[k].controller
          /\ \A j \in 1..(k - 1) :
                /\ regCalls[j].to <= regCalls[k].from
                /\ \A i \in (regCalls[j].from + 1)..regCalls[j].to :
                      /\ routeRegistry[i].controller = ClassName(regCalls[j].controller)
                      /\ hono[i].wrapper.controllerClass = regCalls[j].controller

\* The first controller was registered with its routes, then the container
\* failed on the second one
UnresolvedControllerRegistersNothingWitness ==
    /\ Len(regCalls) = 2
    /\ regCalls[1].err = "none" /\ regCalls[1].to > regCalls[1].from
    /\ regCalls[2].controller \in diFailing
    /\ routes[regCalls[2].controller] # <<>>
    /\ Len(routeRegistry) = regCalls[1].to

\* ------------------------------------------------------------------------
\* The order of module registration
\* ------------------------------------------------------------------------
RECURSIVE ImportsFirst(_, _, _)
\* The entries (services or controllers) of the module tree of m, those of
\* each import, in import order, before those of the importing module
ImportsFirst(m, field, depth) ==
    LET RECURSIVE OfImports(_)
        OfImports(imports) ==
            IF imports = <<>> \/ depth = 0 THEN <<>>
            ELSE ImportsFirst(Head(imports), field, depth - 1) \o OfImports(Tail(imports))
    IN  OfImports(modules[m].imports)
        \o (IF field = "services" THEN modules[m].services ELSE modules[m].controllers)

\* C35: registerModule walks the imports of a module, recursively and in
\* import order, before it resolves the module's own services, and returns
\* the controllers of the imports in import order followed by the module's
\* own: the services of an imported module are resolved before any service
\* of the module that imports it
ImportsBeforeOwn ==
    \A k \in 1..Len(appCalls) :
       LET call == appCalls[k]
           own == modules[call.module].services
       IN  call.culprit = "none" =>
              /\ call.controllers = ImportsFirst(call.module, "controllers", Cardinality(Modules))
              /\ call.services = ImportsFirst(call.module, "services", Cardinality(Modules))
              /\ SubSeq(call.services, Len(call.services) - Len(own) + 1,
                        Len(call.services)) = own

\* M1 imports M2 and M3 and M2 imports M3: the services of M3 and M2 were
\* resolved before that of M1, and the controller of M2 comes before that of M1
ImportsBeforeOwnWitness ==
    \E k \in 1..Len(appCalls) :
       /\ appCalls[k].module = "M1"
       /\ appCalls[k].culprit = "none"
       /\ appCalls[k].services = <<"S3", "S2", "S3", "S1">>
       /\ appCalls[k].controllers = <<"c2", "c1">>

\* ------------------------------------------------------------------------
\* Plugin hooks
\* ------------------------------------------------------------------------
HooksOf(phase) == {k \in 1..Len(boot.hooks) : boot.hooks[k].phase = phase}

\* C36: in Application.create the beforeModulesRegistered hooks run in plugin
\* order and are over before the first route is registered, and the
\* afterModulesRegistered hooks run in plugin order after the last controller
\* of the root module tree was registered; the two phases do not overlap
HooksAroundRegistration ==
    /\ \A k \in HooksOf("before") :
          /\ boot.hooks[k].routes = 0 /\ boot.hooks[k].registrations = 0
          /\ \A m \in HooksOf("after") : k < m
    /\ \A k \in HooksOf("after") :
          /\ boot.hooks[k].registrations = 1
          /\ appCalls[1].module = boot.root /\ appCalls[1].err = "none"
          /\ boot.hooks[k].routes = appCalls[1].routesAfter
          /\ Len(regCalls) = Len(appCalls[1].controllers)
    /\ \A k \in 1..Len(boot.hooks), m \in 1..Len(boot.hooks) :
          (k < m /\ boot.hooks[k].phase = boot.hooks[m].phase) =>
              boot.hooks[k].plugin < boot.hooks[m].plugin
    /\ \A k \in 1..Len(boot.hooks) :
          /\ boot.plugins[boot.hooks[k].plugin][boot.hooks[k].phase]
          /\ \A n \in 1..(boot.hooks[k].plugin - 1) :
                boot.plugins[n][boot.hooks[k].phase] =>
                   \E m \in 1..(k - 1) : /\ boot.hooks[m].phase = boot.hooks[k].phase
                                         /\ boot.hooks[m].plugin = n
                                         /\ boot.hooks[m].out = "returns"
    /\ boot.pc = "done" =>
          \A n \in 1..Len(boot.plugins) : \A phase \in {"before", "after"} :
             boot.plugins[n][phase] =>
                \E k \in HooksOf(phase) : boot.hooks[k].plugin = n

\* Two plugins with both hooks, a root module with two controllers: the four
\* hooks ran around the registration of three routes
HooksAroundRegistrationWitness ==
    /\ boot.pc = "done"
    /\ Len(boot.hooks) = 4
    /\ Len(regCalls) = 2
    /\ boot.hooks[2].routes = 0
    /\ boot.hooks[3].routes = 3


\* The number of registrations a version stands for
ExpectedCount(version) ==
    CASE version.t \in {"undefined", "null", "number"} -> 1
      [] version.t = "neutral" -> 2
      [] version.t = "array" -> Len(version.v)

\* The router registrations a registerController call produced for a handler
RegistrationsOf(call, h) ==
    {i \in (call.from + 1)..call.to :
        i \in DOMAIN hono /\ hono[i].wrapper.handlerName = h}

CatalogMatchesRouter ==
    /\ Len(getRoutes) = Len(hono)
    /\ \A i \in 1..Len(getRoutes) :
          /\ getRoutes[i].fullPath = hono[i].path
          /\ getRoutes[i].handler = hono[i].wrapper.handlerName
          /\ getRoutes[i].controller = ClassName(hono[i].wrapper.controllerClass)
          /\ toUpperCase(getRoutes[i].method) = hono[i].method

\* Both controllers registered, the first one stopped by a pipe the container
\* cannot build after its first route was registered, the second one complete
CatalogMatchesRouterWitness ==
    /\ Len(regCalls) = 2
    /\ \E k \in 1..2 :
          /\ regCalls[k].controller = "c1" /\ regCalls[k].err # "none"
          /\ regCalls[k].to > regCalls[k].from
    /\ \E k \in 1..2 : regCalls[k].controller = "c2" /\ regCalls[k].err = "none"
    /\ Len(hono) >= 2
    /\ hono[1].method # getRoutes[1].method
    /\ \E i, j \in 1..Len(hono) : hono[i].path # hono[j].path


\* The last call of catch so far
LastCatch == CHOOSE k \in CatchEntries : \A m \in CatchEntries : m <= k

Members(list) == {list[i] : i \in 1..Len(list)}

\* The calls of one operation in the log
CallsOf(op) == {k \in 1..Len(log) : log[k].op = op}

====
